---- MODULE Spec2Model ----
(***************************************************************************)
(* Model of the hot-path decision loop of the trading engine:              *)
(*   crates/engine/src/router.rs  (TradeGate, OrderRouter, RiskManager)    *)
(*   crates/engine/src/lib.rs     (TradingEngine)                          *)
(*   crates/engine/src/rl_agent.rs (RLAgent::to_route_decision)            *)
(*                                                                         *)
(* Fixed-point units for the f64 quantities of the source:                 *)
(*   confidence            percent            (0.8   -> 80)                *)
(*   edge, spread, costs   tenths of a bps    (15.0  -> 150)               *)
(*   urgency               1/2000             (0.755 -> 1510)              *)
(*   size_fraction         1/10000            (0.02  -> 200)               *)
(*   money (notional, pnl) whole dollars                                   *)
(***************************************************************************)
EXTENDS Integers, Sequences, FiniteSets, TLC

VARIABLES
    \* ---- RiskManager (router.rs:274-280)
    positions,      \* symbol -> NoPos | [size, mark_price]
    daily_pnl,
    daily_start,
    kill_switch,
    now,            \* wall clock, seconds (chrono::Utc::now().timestamp())
    riskCall,       \* last check_limits call: inputs, result, and the state it ran in;
                    \* after update_pnl, its argument
    tripped,        \* history: update_pnl has made daily_pnl < -max_loss_per_day
                    \* since the last daily reset
    \* ---- TradeGate.check as a function of its arguments
    gateCall,
    \* ---- TradingEngine (lib.rs:21-53)
    mode,             \* config.mode : TradingMode
    decision_mode,    \* config.decision_mode : DecisionMode
    batch_size,       \* config.batch_size
    batch_timeout_ms, \* config.batch_timeout_ms
    crypto_loaded,    \* inference_pool.crypto is Some
    equity_loaded,    \* inference_pool.equity is Some
    adapters,         \* the adapter map is non-empty
    phase,            \* "created" | "running" | "stopped" : position of run()
    shutdown,         \* value of the shutdown watch channel
    abort_requested,  \* processing_handle.abort() has been called
    chan,             \* market_rx: snapshots sent and not yet received
    arrived,          \* number of snapshots sent so far
    \* ---- the processing task (process_with_batching)
    pc,               \* "idle" | "recv" | "signal" | "infer" | "execute" | "send" | "aborted"
    batch,            \* the batch buffer
    idx,              \* index in batch of the signal being processed (0: not flushing)
    cur_features,     \* FeatureVec of the signal being processed
    pending,          \* Hybrid: the RL decision awaiting the ML decision
    decision,         \* last RouteDecision produced by a decision path
    last_order,       \* last OrderRequest handed to adapter.send_order
    mono,             \* monotonic clock (std::time::Instant), ms
    last_flush,       \* last_flush of process_with_batching
    last_kernel,      \* history: time of the last compute_batch call (loop start at first)
    last_push,        \* history: time of the last batch.push
    flush_info,       \* history: the last batch handed to compute_batch
    \* ---- InferencePool (inference.rs:69-74)
    predictCall,        \* last predict call: duration of the inference and the result
    inference_timeout,  \* the metrics counter "inference_timeout"
    ensembleCall,       \* last predict_ensemble call: constituents and result
    loadCall,           \* last load_crypto or load_equity call
    \* ---- OrderBookMaintainer (adapters/src/lib.rs:114-119)
    bids,             \* price -> quantity, 0 where the map has no entry
    asks,
    sequence,
    applied,          \* history: number of apply_delta calls
    last_delta,       \* history: <<side, price>> -> quantity of the last delta for it
                      \* since the last Clear (0: Delete, -1: none)
    book_out,         \* last OrderBook returned by to_orderbook
    \* ---- HyperliquidAdapter (hyperliquid.rs:15-23)
    snapshot_q,       \* snapshots sent on snapshot_tx and held by its channel
    \* ---- RateLimiter (rate_limiter.rs:8-18)
    available,        \* TokenBucket.available
    last_refill,      \* TokenBucket.last_refill
    lim_now,          \* Instant::now() as the limiter reads it, in ticks
    lim_pc,           \* caller -> "idle" | "acquiring" | "waiting" | "holding"
    sem_queue,        \* callers waiting in the semaphore, in order of arrival
    grant,            \* history: the last guard handed out
    granted,          \* history: number of guards handed out so far
    \* ---- the telemetry streams (main.rs:188-189, ws_server.rs:15-18)
    tv_version,       \* stream -> version of its watch channel: number of sends
    tv_value,         \* stream -> value the watch channel holds
    sub,              \* stream -> the subscriber on its socket
    \* ---- the alert stream (main.rs:190, ws_server.rs:115-142)
    alert_sent,       \* number of alerts sent on the broadcast channel
    alert_sub,        \* the subscriber of the alerts socket
    \* ---- OrderRouter::decide and RLAgent::to_route_decision as functions
    routeCall

riskVars == <<positions, daily_pnl, daily_start, kill_switch, now, riskCall, tripped>>
gateVars == <<gateCall>>
configVars == <<decision_mode, batch_size, batch_timeout_ms>>
engineVars ==
    <<mode, configVars, crypto_loaded, equity_loaded, adapters, phase, shutdown,
      abort_requested, chan, arrived, pc, batch, idx, cur_features, pending, decision,
      last_order, mono, last_flush, last_kernel, last_push, flush_info>>
poolVars == <<predictCall, inference_timeout, ensembleCall, loadCall>>
bookVars == <<bids, asks, sequence, applied, last_delta, book_out, snapshot_q>>
routeVars == <<routeCall>>
limiterVars == <<available, last_refill, lim_now, lim_pc, sem_queue, grant, granted>>
telemetryVars == <<tv_version, tv_value, sub>>
alertVars == <<alert_sent, alert_sub>>
auxVars == <<poolVars, bookVars, routeVars, limiterVars, telemetryVars, alertVars>>
vars == <<riskVars, gateVars, engineVars, auxVars>>

Symbols == {"BTC", "ETH"}
NoPos == [size |-> 0, mark_price |-> 0, present |-> FALSE]
NoCall == [made |-> FALSE]

Abs(x) == IF x < 0 THEN -x ELSE x
Min(a, b) == IF a < b THEN a ELSE b
Max(a, b) == IF a > b THEN a ELSE b

(***************************************************************************)
(* RiskLimits: the limits of tests::test_risk_manager (router.rs:470-476). *)
(***************************************************************************)
max_notional_per_symbol == 50000
max_total_notional == 100000
max_loss_per_day == 5000
DAY == 86400

\* ---- inputs the environment may supply to the RiskManager
PosSizes == {-5, 3}
MarkPrices == {10000}
Notionals == {10000, 60000}
PnlDeltas == {-5001, 5001}
TickSteps == {1, 21600}
MaxAbsPnl == 10002
MaxSmallTicks == 1
MaxBigTicks == 5

RECURSIVE SumNotional(_, _)
SumNotional(pos, S) ==
    IF S = {} THEN 0
    ELSE LET s == CHOOSE x \in S : TRUE
         IN  (IF pos[s].present THEN Abs(pos[s].size) * pos[s].mark_price ELSE 0)
             + SumNotional(pos, S \ {s})

\* RiskManager::get_state
get_state(pos, pnl, ks) ==
    [ current_notional    |-> SumNotional(pos, Symbols),
      max_notional        |-> max_total_notional,
      daily_pnl           |-> pnl,
      daily_loss_limit    |-> max_loss_per_day,
      kill_switch_active  |-> ks,
      daily_loss_exceeded |-> pnl < -max_loss_per_day ]

RiskOk == [ok |-> TRUE, reason |-> "Ok"]
RiskErr(r) == [ok |-> FALSE, reason |-> r]

\* RiskManager::check_limits
check_limits(pos, pnl, ks, symbol, additional_notional) ==
    LET state == get_state(pos, pnl, ks) IN
    IF state.kill_switch_active THEN RiskErr("Kill switch active")
    ELSE IF state.daily_loss_exceeded THEN RiskErr("Daily loss limit exceeded")
    ELSE IF state.current_notional + additional_notional > state.max_notional
         THEN RiskErr("Would exceed max notional")
    ELSE IF pos[symbol].present
            /\ Abs(pos[symbol].size) * pos[symbol].mark_price + additional_notional
                 > max_notional_per_symbol
         THEN RiskErr("Would exceed per-symbol limit")
    ELSE RiskOk

\* RiskManager::update_position, for a position in one of `syms` of a size in `sizes`
UpdatePositionOf(syms, sizes) ==
    \E s \in syms, sz \in sizes, mp \in MarkPrices :
        /\ positions' = [positions EXCEPT ![s] =
                            [size |-> sz, mark_price |-> mp, present |-> TRUE]]
        /\ riskCall' = NoCall
        /\ UNCHANGED <<daily_pnl, daily_start, kill_switch, now, tripped>>

\* The same as update_pnl, but the daily reset also disarms the kill switch.
UpdatePnlDisarming ==
    \E pnl_delta \in PnlDeltas :
        LET added == daily_pnl + pnl_delta
            reset == now - daily_start > DAY
        IN  /\ Abs(added) <= MaxAbsPnl
            /\ daily_pnl' = IF reset THEN 0 ELSE added
            /\ daily_start' = IF reset THEN now ELSE daily_start
            /\ tripped' = IF reset THEN FALSE
                          ELSE tripped \/ added < -max_loss_per_day
            /\ kill_switch' = IF reset THEN FALSE ELSE kill_switch
            /\ riskCall' = [made |-> FALSE, pnl_delta |-> pnl_delta]
            /\ UNCHANGED <<positions, now>>

\* update_pnl whose daily reset is made before the delta is added.
UpdatePnlResetFirst ==
    \E pnl_delta \in PnlDeltas :
        LET added == daily_pnl + pnl_delta
            reset == now - daily_start > DAY
        IN  /\ Abs(added) <= MaxAbsPnl
            /\ daily_pnl' = IF reset THEN pnl_delta ELSE added
            /\ daily_start' = IF reset THEN now ELSE daily_start
            /\ tripped' = IF reset THEN pnl_delta < -max_loss_per_day
                          ELSE tripped \/ added < -max_loss_per_day
            /\ riskCall' = [made |-> FALSE, pnl_delta |-> pnl_delta]
            /\ UNCHANGED <<positions, kill_switch, now>>

\* RiskManager::update_pnl
UpdatePnl ==
    \E pnl_delta \in PnlDeltas :
        LET added == daily_pnl + pnl_delta
            reset == now - daily_start > DAY
        IN  /\ Abs(added) <= MaxAbsPnl
            /\ daily_pnl' = IF reset THEN 0 ELSE added
            /\ daily_start' = IF reset THEN now ELSE daily_start
            /\ tripped' = IF reset THEN FALSE
                          ELSE tripped \/ added < -max_loss_per_day
            /\ riskCall' = [made |-> FALSE, pnl_delta |-> pnl_delta]
            /\ UNCHANGED <<positions, kill_switch, now>>

UpdatePosition == UpdatePositionOf(Symbols, PosSizes)

\* RiskManager::activate_kill_switch
ActivateKillSwitch ==
    /\ kill_switch' = TRUE
    /\ riskCall' = NoCall
    /\ UNCHANGED <<positions, daily_pnl, daily_start, now, tripped>>

\* RiskManager::deactivate_kill_switch
DeactivateKillSwitch ==
    /\ kill_switch' = FALSE
    /\ riskCall' = NoCall
    /\ UNCHANGED <<positions, daily_pnl, daily_start, now, tripped>>

\* A caller runs check_limits(symbol, n) in the current state; riskCall holds the
\* call and its result until the next step.
CheckLimits ==
    \E s \in Symbols, n \in Notionals :
        /\ riskCall' = [made |-> TRUE, symbol |-> s, n |-> n,
                        result |-> check_limits(positions, daily_pnl, kill_switch, s, n)]
        /\ UNCHANGED <<positions, daily_pnl, daily_start, kill_switch, now, tripped>>

\* The wall clock advances.
TickNow ==
    \E dt \in TickSteps :
        /\ IF dt = 1 THEN now % 21600 < MaxSmallTicks
                     ELSE now \div 21600 < MaxBigTicks
        /\ now' = now + dt
        /\ riskCall' = NoCall
        /\ UNCHANGED <<positions, daily_pnl, daily_start, kill_switch, tripped>>

(***************************************************************************)
(* TradeGate (router.rs:57-139) and CostModel (router.rs:39-55).           *)
(***************************************************************************)
\* A taker cost that credits the maker rebate.
total_cost_taker_less_rebate(costs) ==
    costs.taker_fee_bps + costs.impact_bps + costs.slippage_buffer_bps
    - costs.maker_rebate_bps

total_cost_taker(costs) ==
    costs.taker_fee_bps + costs.impact_bps + costs.slippage_buffer_bps

net_edge_taker(costs, pred_edge_bps) == pred_edge_bps - total_cost_taker(costs)

\* TradeGate::compute_urgency, in 1/2000:
\*   0.4*conf + 0.3*max(0, 10 - spread)/10 + 0.3*min(1, |edge|/20), clamped to [0,1]
compute_urgency(prediction, features) ==
    LET confidence_factor == 8 * prediction.confidence
        spread_factor == 6 * Max(100 - features.spread_bps, 0)
        signal_factor == 3 * Min(Abs(prediction.edge_bps), 200)
    IN  Max(0, Min(2000, confidence_factor + spread_factor + signal_factor))

Reject(r) == [pass |-> FALSE, reason |-> r, net_edge_bps |-> 0, urgency |-> 0]

\* The same checks with the kill-switch test left out.
check_without_kill_switch(params, prediction, features, costs, risk) ==
    LET net_edge == net_edge_taker(costs, prediction.edge_bps) IN
    IF ~params.enabled THEN Reject("Gate disabled")
    ELSE IF prediction.confidence < params.min_confidence THEN Reject("Low confidence")
    ELSE IF features.spread_bps > params.max_spread_bps THEN Reject("Wide spread")
    ELSE IF net_edge < params.min_edge_bps THEN Reject("Insufficient edge")
    ELSE IF risk.daily_loss_exceeded THEN Reject("Daily loss limit exceeded")
    ELSE [pass |-> TRUE, reason |-> "Pass", net_edge_bps |-> net_edge,
          urgency |-> compute_urgency(prediction, features)]

\* The same checks with the two risk tests made first.
check_risk_first(params, prediction, features, costs, risk) ==
    LET net_edge == net_edge_taker(costs, prediction.edge_bps) IN
    IF ~params.enabled THEN Reject("Gate disabled")
    ELSE IF risk.kill_switch_active THEN Reject("Kill switch active")
    ELSE IF risk.daily_loss_exceeded THEN Reject("Daily loss limit exceeded")
    ELSE IF prediction.confidence < params.min_confidence THEN Reject("Low confidence")
    ELSE IF features.spread_bps > params.max_spread_bps THEN Reject("Wide spread")
    ELSE IF net_edge < params.min_edge_bps THEN Reject("Insufficient edge")
    ELSE [pass |-> TRUE, reason |-> "Pass", net_edge_bps |-> net_edge,
          urgency |-> compute_urgency(prediction, features)]

\* TradeGate::check
check(params, prediction, features, costs, risk) ==
    LET net_edge == net_edge_taker(costs, prediction.edge_bps) IN
    IF ~params.enabled THEN Reject("Gate disabled")
    ELSE IF prediction.confidence < params.min_confidence THEN Reject("Low confidence")
    ELSE IF features.spread_bps > params.max_spread_bps THEN Reject("Wide spread")
    ELSE IF net_edge < params.min_edge_bps THEN Reject("Insufficient edge")
    ELSE IF risk.kill_switch_active THEN Reject("Kill switch active")
    ELSE IF risk.daily_loss_exceeded THEN Reject("Daily loss limit exceeded")
    ELSE [pass |-> TRUE, reason |-> "Pass", net_edge_bps |-> net_edge,
          urgency |-> compute_urgency(prediction, features)]

\* ---- argument values for TradeGate::check
Confidences == {0, 40, 50, 80, 100}
EdgesBps == {-150, 50, 150, 300}
SpreadsBps == {20, 30, 100, 120}
HorizonsMs == {5000}
Predictions == [edge_bps : EdgesBps, confidence : Confidences, horizon_ms : HorizonsMs]
MidPrices == {50000}
FeatureVecs == [spread_bps : SpreadsBps, mid_price : MidPrices]
CostModels ==
    [taker_fee_bps : {50, 60}, maker_fee_bps : {20}, maker_rebate_bps : {10},
     impact_bps : {5, 20}, slippage_buffer_bps : {10}]
GateParamSets ==
    [min_edge_bps : {50}, min_confidence : {0, 50}, max_spread_bps : {100},
     enabled : BOOLEAN]
RiskStates ==
    [current_notional : {0}, max_notional : {max_total_notional}, daily_pnl : {0},
     daily_loss_limit : {max_loss_per_day}, kill_switch_active : BOOLEAN,
     daily_loss_exceeded : BOOLEAN]

\* A caller runs TradeGate.check once, on arbitrary arguments.
GateCheck ==
    /\ ~gateCall.made
    /\ \E params \in GateParamSets, prediction \in Predictions, features \in FeatureVecs,
          costs \in CostModels, risk \in RiskStates :
        gateCall' = [made |-> TRUE, params |-> params, prediction |-> prediction,
                     features |-> features, costs |-> costs, risk |-> risk,
                     result |-> check(params, prediction, features, costs, risk)]

GateInit == gateCall = NoCall

(***************************************************************************)
(* OrderRouter (router.rs:166-271).                                        *)
(***************************************************************************)
\* OrderRouter::select_style
select_style(urgency, spread_bps) ==
    IF urgency > 1600 THEN "TakerNow"
    ELSE IF urgency > 1000 /\ spread_bps < 30 THEN "Sniper"
    ELSE "MakerPassive"

\* OrderRouter::compute_size, in 1/10000:
\*   (0.02 * confidence^2 * (1 + urgency * 0.5)).min(0.10)
compute_size(confidence, urgency) ==
    Min((confidence * confidence * (4000 + urgency)) \div 200000, 1000)

\* OrderRouter::compute_hold_time, in ms:
\*   (horizon_ms/1000 * 0.5 * spread_factor * (1 - urgency*0.3)).clamp(2.0, 60.0)
compute_hold_time(horizon_ms, spread_bps, urgency) ==
    LET spread_factor == IF spread_bps > 50 THEN 7 ELSE 10
        base == (horizon_ms * spread_factor * (20000 - 3 * urgency)) \div 400000
    IN  Max(2000, Min(60000, base))

\* OrderRouter::decide; `gate` records the verdict of TradeGate.check.
decide(params, pos, pnl, ks, prediction, feat, costs) ==
    LET risk_state == get_state(pos, pnl, ks)
        gate_result == check(params, prediction, feat, costs, risk_state)
    IN  IF ~gate_result.pass
        THEN [style |-> "MakerPassive", size_fraction |-> 0, hold_duration_ms |-> 0,
              urgency |-> 0, should_trade |-> FALSE, reason |-> gate_result.reason,
              gate |-> "reject"]
        ELSE [style |-> select_style(gate_result.urgency, feat.spread_bps),
              size_fraction |-> compute_size(prediction.confidence, gate_result.urgency),
              hold_duration_ms |->
                  compute_hold_time(prediction.horizon_ms, feat.spread_bps,
                                    gate_result.urgency),
              urgency |-> gate_result.urgency, should_trade |-> TRUE,
              reason |-> "Edge", gate |-> "pass"]

(***************************************************************************)
(* RLAgent::to_route_decision (rl_agent.rs:200-258); the engine configures *)
(* the MultiDiscrete action type (lib.rs:90).  The RouteDecision's urgency *)
(* is the action's confidence.  No TradeGate.check is made here.           *)
(* A Continuous action's size is in 1/1000.                                *)
(***************************************************************************)
to_route_decision(action) ==
    IF action.kind = "Discrete"
    THEN [style |-> "MakerPassive",
          size_fraction |-> IF action.idx # 0 THEN 200 ELSE 0,
          hold_duration_ms |-> 30000,
          urgency |-> action.confidence,
          should_trade |-> action.idx # 0,
          reason |-> "RL action",
          gate |-> "none"]
    ELSE IF action.kind = "Continuous"
    THEN [style |-> IF Abs(action.size) > 500 THEN "TakerNow" ELSE "MakerPassive",
          size_fraction |-> Abs(action.size),
          hold_duration_ms |-> 30000,
          urgency |-> action.confidence,
          should_trade |-> Abs(action.size) > 10,
          reason |-> "RL size",
          gate |-> "none"]
    ELSE [style |-> IF action.style = 0 THEN "MakerPassive"
                    ELSE IF action.style = 1 THEN "TakerNow" ELSE "Sniper",
          size_fraction |-> (action.size + 1) * 100,
          hold_duration_ms |-> (action.duration + 1) * 10000,
          urgency |-> action.confidence,
          should_trade |-> action.size > 0,
          reason |-> "RL multi",
          gate |-> "none"]

\* features.mid_price * decision.size_fraction, in dollars
Notional(feat, d) == (feat.mid_price * d.size_fraction) \div 10000

\* TradingEngine::decide_with_rl_mandatory, after a successful get_action
decide_with_rl(pos, pnl, ks, symbol, feat, action) ==
    LET d == to_route_decision(action)
        r == check_limits(pos, pnl, ks, symbol, Notional(feat, d))
    IN  IF ~r.ok THEN [d EXCEPT !.should_trade = FALSE, !.reason = "Risk check failed"]
        ELSE d

\* GateParams::default (router.rs:17-27)
DefaultGateParams ==
    [min_edge_bps |-> 50, min_confidence |-> 50, max_spread_bps |-> 100,
     enabled |-> TRUE]

\* The CostModel built by decide_with_ml_mandatory (lib.rs:414-420);
\* impact_bps is features.impact_bps_1pct, which features_to_vec sets to 0.5.
EngineCosts ==
    [taker_fee_bps |-> 50, maker_fee_bps |-> 20, maker_rebate_bps |-> 10,
     impact_bps |-> 5, slippage_buffer_bps |-> 10]

\* TradingEngine::decide_with_ml_mandatory, after a successful predict
decide_with_ml(pos, pnl, ks, prediction, feat) ==
    decide(DefaultGateParams, pos, pnl, ks, prediction, feat, EngineCosts)

\* decide_hybrid_mandatory returning the RL decision whatever the ML decision is.
decide_hybrid_rl_only(rl_decision, ml_decision) ==
    [rl |-> rl_decision.should_trade, ml |-> ml_decision.should_trade]
    @@ [rl_decision EXCEPT !.gate = ml_decision.gate]

\* TradingEngine::decide_hybrid_mandatory, given both decisions; `rl` and `ml`
\* record the should_trade of the two.
decide_hybrid(rl_decision, ml_decision) ==
    [rl |-> rl_decision.should_trade, ml |-> ml_decision.should_trade]
    @@ (IF rl_decision.should_trade /\ ml_decision.should_trade
        THEN [rl_decision EXCEPT !.gate = ml_decision.gate]
        ELSE [rl_decision EXCEPT !.should_trade = FALSE,
                                 !.reason = "RL/ML disagreement",
                                 !.gate = ml_decision.gate])

(***************************************************************************)
(* TradingEngine (lib.rs).                                                 *)
(***************************************************************************)
TradingModes == {"Backtest", "Paper", "Live", "Paused"}
DecisionModes == {"RLAgent", "MLTraditional", "Hybrid"}
NoDecision == [made |-> FALSE]
NoOrder == [made |-> FALSE]
NoFlush == [made |-> FALSE]
NoFeatures == [spread_bps |-> 0, mid_price |-> 0]

\* ---- bounds and inputs of the engine model
MaxBatchSize == 2
MaxTimeoutMs == 2
MaxMono == 3
MaxSnapshots == 3
Delta == 1
EngineFeatureVecs == [spread_bps : {30}, mid_price : MidPrices]
EnginePredictions == [edge_bps : {150}, confidence : {40, 80}, horizon_ms : HorizonsMs]
RLActions ==
    [kind : {"MultiDiscrete"}, style : {1}, size : {0, 1}, duration : {0},
     confidence : {1000}]

\* What verify_models_loaded requires of the configured DecisionMode
\* (the RL agent itself is loaded by new(), which fails otherwise).
Readiness(dm) ==
    IF dm = "RLAgent" THEN TRUE ELSE crypto_loaded /\ equity_loaded

\* TradingEngine::load_models: each category loads or fails; the first failure
\* returns the error (main logs it and goes on, main.rs:155-157).
LoadModels ==
    /\ phase = "created"
    /\ \E crypto_ok \in BOOLEAN, equity_ok \in BOOLEAN :
        /\ crypto_loaded' = (crypto_loaded \/ crypto_ok)
        /\ equity_loaded' = (equity_loaded \/ (crypto_ok /\ equity_ok))
    /\ UNCHANGED <<mode, configVars, adapters, phase, shutdown, abort_requested, chan,
                   arrived, pc, batch, idx, cur_features, pending, decision, last_order,
                   mono, last_flush, last_kernel, last_push, flush_info>>

\* TradingEngine::add_adapter
AddAdapter ==
    /\ ~adapters
    /\ adapters' = TRUE
    /\ UNCHANGED <<mode, configVars, crypto_loaded, equity_loaded, phase, shutdown,
                   abort_requested, chan, arrived, pc, batch, idx, cur_features, pending,
                   decision, last_order, mono, last_flush, last_kernel, last_push,
                   flush_info>>

\* set_mode taking the write lock while a signal is being processed.
SetModeAnytime ==
    /\ \E m \in TradingModes \ {mode} : mode' = m
    /\ UNCHANGED <<configVars, crypto_loaded, equity_loaded, adapters, phase, shutdown,
                   abort_requested, chan, arrived, pc, batch, idx, cur_features, pending,
                   decision, last_order, mono, last_flush, last_kernel, last_push,
                   flush_info>>

\* set_mode with the read lock of process_signal_mandatory released once the
\* decision is made.
SetModeAfterDecision ==
    /\ pc # "infer"
    /\ \E m \in TradingModes \ {mode} : mode' = m
    /\ UNCHANGED <<configVars, crypto_loaded, equity_loaded, adapters, phase, shutdown,
                   abort_requested, chan, arrived, pc, batch, idx, cur_features, pending,
                   decision, last_order, mono, last_flush, last_kernel, last_push,
                   flush_info>>

\* TradingEngine::set_mode; config.write() waits while process_signal_mandatory
\* holds config.read() (from its first line to its return).
SetMode ==
    /\ pc \notin {"infer", "execute", "send"}
    /\ \E m \in TradingModes \ {mode} : mode' = m
    /\ UNCHANGED <<configVars, crypto_loaded, equity_loaded, adapters, phase, shutdown,
                   abort_requested, chan, arrived, pc, batch, idx, cur_features, pending,
                   decision, last_order, mono, last_flush, last_kernel, last_push,
                   flush_info>>

\* TradingEngine::run, up to the spawn of process_with_batching, whose first
\* lines set batch and last_flush.
Run ==
    /\ phase = "created"
    /\ phase' = "running"
    /\ pc' = "recv"
    /\ batch' = <<>>
    /\ last_flush' = mono
    /\ last_kernel' = mono
    /\ UNCHANGED <<mode, configVars, crypto_loaded, equity_loaded, adapters, shutdown,
                   abort_requested, chan, arrived, idx, cur_features, pending, decision,
                   last_order, mono, last_push, flush_info>>

\* A producer sends a snapshot of one of `syms` on the channel
\* process_with_batching receives from.
ArriveOf(syms) ==
    /\ phase = "running"
    /\ pc # "aborted"
    /\ arrived < MaxSnapshots
    /\ \E s \in syms :
        chan' = Append(chan, [symbol |-> s, seq |-> arrived + 1])
    /\ arrived' = arrived + 1
    /\ UNCHANGED <<mode, configVars, crypto_loaded, equity_loaded, adapters, phase,
                   shutdown, abort_requested, pc, batch, idx, cur_features, pending,
                   decision, last_order, mono, last_flush, last_kernel, last_push,
                   flush_info>>

Arrive == ArriveOf(Symbols)

\* The monotonic clock advances.
TickMono ==
    /\ mono < MaxMono
    /\ mono' = mono + 1
    /\ UNCHANGED <<mode, configVars, crypto_loaded, equity_loaded, adapters, phase,
                   shutdown, abort_requested, chan, arrived, pc, batch, idx, cur_features,
                   pending, decision, last_order, last_flush, last_kernel, last_push,
                   flush_info>>

\* Vec::push as a front insertion.
push_front(b, snapshot) == <<snapshot>> \o b

\* batch.push(snapshot) (lib.rs:266).
push(b, snapshot) == Append(b, snapshot)

\* The Err arm of compute_batch keeping the batch for the next flush.
keep_batch(b) == b

\* The Err arm of compute_batch (lib.rs:277-283): batch.clear(), continue.
drop_batch(b) == <<>>

\* The count of engine_halt_gpu_failure (lib.rs:280) after the last flush.
halts == IF flush_info.made THEN flush_info.halts ELSE 0

\* process_with_batching, one iteration from recv to the feature kernel
\* (lib.rs:265-286): push, test should_flush, and on a flush call compute_batch,
\* which fails or returns one ComputedFeatures per snapshot.
Recv ==
    /\ pc = "recv"
    /\ chan # <<>>
    /\ LET b == push(batch, Head(chan))
           should_flush == \/ Len(b) >= batch_size
                           \/ mono - last_flush >= batch_timeout_ms
       IN  /\ chan' = Tail(chan)
           /\ last_push' = mono
           /\ IF should_flush /\ b # <<>>
              THEN /\ last_kernel' = mono
                   /\ \E kernel_ok \in BOOLEAN :
                        /\ flush_info' =
                             [made |-> TRUE, size |-> Len(b),
                              since |-> mono - last_kernel,
                              kernel_ok |-> kernel_ok,
                              upto |-> Head(chan).seq,
                              halts |-> halts + (IF kernel_ok THEN 0 ELSE 1)]
                        /\ IF kernel_ok
                           THEN batch' = b /\ idx' = 1 /\ pc' = "signal"
                           ELSE batch' = drop_batch(b) /\ idx' = 0 /\ pc' = "recv"
              ELSE /\ batch' = b
                   /\ UNCHANGED <<flush_info, last_kernel, idx, pc>>
    /\ UNCHANGED <<mode, configVars, crypto_loaded, equity_loaded, adapters, phase,
                   shutdown, abort_requested, arrived, cur_features, pending, decision,
                   last_order, mono, last_flush>>

\* The for loop of process_with_batching moves to the next ComputedFeatures, or
\* ends the flush (lib.rs:297-305): batch.clear(), last_flush = now.
AdvanceSignal ==
    IF idx < Len(batch)
    THEN idx' = idx + 1 /\ pc' = "signal" /\ UNCHANGED <<batch, last_flush>>
    ELSE idx' = 0 /\ pc' = "recv" /\ batch' = <<>> /\ last_flush' = mono

\* An error of process_signal_mandatory ending the for loop: the batch is
\* cleared and the remaining ComputedFeatures are left out.
SkipRestOfBatch ==
    idx' = 0 /\ pc' = "recv" /\ batch' = <<>> /\ last_flush' = mono

\* process_signal_mandatory returned Err (lib.rs:289-294): the error is logged,
\* signal_processing_error is counted, and the for loop goes on.
SkipSignal == AdvanceSignal

\* process_signal_mandatory goes on to execute_trade only for a decision with
\* should_trade in Live mode (lib.rs:346-358).  `limits_ok` records what
\* check_limits(symbol, mid_price * size_fraction) answers in the risk state the
\* decision was made in.
AfterDecision(d, feat) ==
    /\ decision' = [made |-> TRUE, limits_ok |->
                        check_limits(positions, daily_pnl, kill_switch,
                                     batch[idx].symbol, Notional(feat, d)).ok] @@ d
    /\ IF d.should_trade /\ mode = "Live"
       THEN pc' = "execute" /\ UNCHANGED <<idx, batch, last_flush>>
       ELSE AdvanceSignal

\* process_signal_mandatory from its start to its first suspension or return
\* (lib.rs:323-344): the Paused test, then the decision path of the mode.
\* get_action fails or returns an action; predict fails at once when the crypto
\* models are not loaded and otherwise suspends on the inference.
StartSignal ==
    /\ pc = "signal"
    /\ \E feat \in EngineFeatureVecs :
        /\ cur_features' = feat
        /\ IF mode = "Paused"
           THEN AdvanceSignal /\ UNCHANGED <<pending, decision>>
           ELSE IF decision_mode = "RLAgent"
           THEN \/ SkipSignal /\ UNCHANGED <<pending, decision>>
                \/ \E action \in RLActions :
                     /\ AfterDecision(decide_with_rl(positions, daily_pnl, kill_switch,
                                                     batch[idx].symbol, feat, action),
                                      feat)
                     /\ UNCHANGED pending
           ELSE IF decision_mode = "MLTraditional"
           THEN IF crypto_loaded
                THEN pc' = "infer" /\ UNCHANGED <<idx, batch, last_flush, pending, decision>>
                ELSE SkipSignal /\ UNCHANGED <<pending, decision>>
           ELSE \/ SkipSignal /\ UNCHANGED <<pending, decision>>
                \/ \E action \in RLActions :
                     /\ pending' = [made |-> TRUE] @@
                            decide_with_rl(positions, daily_pnl, kill_switch,
                                           batch[idx].symbol, feat, action)
                     /\ UNCHANGED decision
                     /\ IF crypto_loaded
                        THEN pc' = "infer" /\ UNCHANGED <<idx, batch, last_flush>>
                        ELSE SkipSignal
    /\ UNCHANGED <<mode, configVars, crypto_loaded, equity_loaded, adapters, phase,
                   shutdown, abort_requested, chan, arrived, last_order, mono,
                   last_kernel, last_push, flush_info>>

\* The inference awaited by predict ends: with an error (Timeout, session failure)
\* or with a Prediction, on which OrderRouter::decide runs (lib.rs:403-425), and in
\* Hybrid mode decide_hybrid_mandatory combines it with the RL decision.
InferDone ==
    /\ pc = "infer"
    /\ \/ SkipSignal /\ UNCHANGED decision
       \/ \E prediction \in EnginePredictions :
            LET ml == decide_with_ml(positions, daily_pnl, kill_switch, prediction,
                                     cur_features)
            IN  AfterDecision(IF decision_mode = "Hybrid"
                              THEN decide_hybrid(pending, ml) ELSE ml,
                              cur_features)
    /\ pending' = NoDecision
    /\ UNCHANGED <<mode, configVars, crypto_loaded, equity_loaded, adapters, phase,
                   shutdown, abort_requested, chan, arrived, cur_features, last_order, mono,
                   last_kernel, last_push, flush_info>>

\* TradingEngine::execute_trade up to the call of adapter.send_order
\* (lib.rs:490-521); `kill` and `mode` record the kill switch and the trading
\* mode at the time of the call, `sent_seq` the arrival number of the last
\* snapshot of each symbol an order was made for, `prev_seq` that number for the
\* symbol of this order before it was made.
sent_seq == IF last_order.made THEN last_order.sent_seq ELSE [s \in Symbols |-> 0]

ExecuteTrade ==
    /\ pc = "execute"
    /\ IF adapters
       THEN /\ last_order' = [made |-> TRUE, symbol |-> batch[idx].symbol,
                              seq |-> batch[idx].seq, style |-> decision.style,
                              quantity |-> decision.size_fraction,
                              gate |-> decision.gate, kill |-> kill_switch,
                              mode |-> mode,
                              prev_seq |-> sent_seq[batch[idx].symbol],
                              sent_seq |-> [sent_seq EXCEPT ![batch[idx].symbol] =
                                                batch[idx].seq]]
            /\ pc' = "send"
            /\ UNCHANGED <<idx, batch, last_flush>>
       ELSE SkipSignal /\ UNCHANGED last_order
    /\ UNCHANGED <<mode, configVars, crypto_loaded, equity_loaded, adapters, phase,
                   shutdown, abort_requested, chan, arrived, cur_features, pending, decision,
                   mono, last_kernel, last_push, flush_info>>

\* send_order returns an ack or an error (lib.rs:521-533); either way the loop
\* of process_with_batching goes on.
SendDone ==
    /\ pc = "send"
    /\ AdvanceSignal
    /\ UNCHANGED <<mode, configVars, crypto_loaded, equity_loaded, adapters, phase,
                   shutdown, abort_requested, chan, arrived, cur_features, pending, decision,
                   last_order, mono, last_kernel, last_push, flush_info>>

\* main sends true on the shutdown watch (main.rs:278-283).
Shutdown ==
    /\ ~shutdown
    /\ shutdown' = TRUE
    /\ UNCHANGED <<mode, configVars, crypto_loaded, equity_loaded, adapters, phase,
                   abort_requested, chan, arrived, pc, batch, idx, cur_features, pending,
                   decision, last_order, mono, last_flush, last_kernel, last_push,
                   flush_info>>

\* run() sees the shutdown value, leaves its loop, calls processing_handle.abort()
\* and returns (lib.rs:227-239).
RunStops ==
    /\ phase = "running"
    /\ shutdown
    /\ abort_requested' = TRUE
    /\ phase' = "stopped"
    /\ UNCHANGED <<mode, configVars, crypto_loaded, equity_loaded, adapters, shutdown,
                   chan, arrived, pc, batch, idx, cur_features, pending, decision,
                   last_order, mono, last_flush, last_kernel, last_push, flush_info>>

\* The aborted task is dropped at the await it is suspended in: recv, the
\* inference, or send_order.  batch and idx stay as they were at that moment.
TaskCancelled ==
    /\ abort_requested
    /\ pc \in {"recv", "infer", "send"}
    /\ pc' = "aborted"
    /\ UNCHANGED <<mode, configVars, crypto_loaded, equity_loaded, adapters, phase,
                   shutdown, abort_requested, chan, arrived, batch, idx, cur_features,
                   pending, decision, last_order, mono, last_flush, last_kernel,
                   last_push, flush_info>>

EngineInit ==
    /\ mode \in TradingModes
    /\ decision_mode \in DecisionModes
    /\ batch_size \in 1..MaxBatchSize
    /\ batch_timeout_ms \in 1..MaxTimeoutMs
    /\ phase = "created"
    /\ shutdown = FALSE
    /\ abort_requested = FALSE
    /\ chan = <<>>
    /\ arrived = 0
    /\ pc = "idle"
    /\ batch = <<>>
    /\ idx = 0
    /\ cur_features = NoFeatures
    /\ pending = NoDecision
    /\ decision = NoDecision
    /\ last_order = NoOrder
    /\ mono = 0
    /\ last_flush = 0
    /\ last_kernel = 0
    /\ last_push = 0
    /\ flush_info = NoFlush

RiskInit ==
    /\ positions = [s \in Symbols |-> NoPos]
    /\ daily_pnl = 0
    /\ daily_start = 0
    /\ now = 0
    /\ kill_switch = FALSE
    /\ riskCall = NoCall
    /\ tripped = FALSE

RiskNext ==
    \/ UpdatePosition
    \/ UpdatePnl
    \/ ActivateKillSwitch
    \/ DeactivateKillSwitch
    \/ CheckLimits
    \/ TickNow

(***************************************************************************)
(* InferencePool::predict (inference.rs:120-176).  Times in ms.            *)
(***************************************************************************)
\* The two outputs of the ONNX session, output[[0, 0]] and output[[0, 1]]: the
\* edge in tenths of a basis point and the confidence in percent.  The model
\* file decides them; nothing bounds the second one.
RawEdges == {100, 200}
RawConfidences == {0, 60, 90, 150}
RawOutputs == [edge_bps : RawEdges, confidence : RawConfidences]

\* The Prediction run_inference builds from the output of the session.
run_inference(raw) ==
    [edge_bps |-> raw.edge_bps, confidence |-> raw.confidence, horizon_ms |-> 5000]

\* InferencePool.timeout_ms, as given to InferencePool::new
timeout_ms == 2
MaxOverrun == 2
MaxTimeoutCount == 2
InferenceTimes == 0..(timeout_ms + MaxOverrun)

Categories == {"CryptoFutures", "Equity"}
ModelTypes == {"IDEC", "Transformer", "GBDT", "Edge"}

\* InferencePool::has_crypto_models, has_equity_models, and the Option that
\* predict reads for a category (inference.rs:127-130).
has_crypto_models == crypto_loaded
has_equity_models == equity_loaded
has_models(category) ==
    IF category = "CryptoFutures" THEN has_crypto_models ELSE has_equity_models

\* predict that goes on to the inference without looking at the model set.
PredictForUnchecked(categories, model_types, times, raws) ==
    /\ inference_timeout < MaxTimeoutCount
    /\ \E category \in categories, model_type \in model_types, took \in times,
          lag \in {0, 1}, session_ok \in BOOLEAN, raw \in raws :
        LET elapsed == took + lag
            call == [made |-> TRUE, took |-> took, elapsed |-> elapsed,
                     category |-> category, model_type |-> model_type,
                     loaded |-> has_models(category)]
            ran == [ran |-> TRUE]
        IN  IF took > timeout_ms
            THEN /\ predictCall' = call @@ ran @@ [result |-> "Timeout", counted |-> 0]
                 /\ UNCHANGED inference_timeout
            ELSE IF ~session_ok
            THEN /\ predictCall' = call @@ ran @@ [result |-> "Model", counted |-> 0]
                 /\ UNCHANGED inference_timeout
            ELSE IF elapsed > timeout_ms
            THEN /\ predictCall' = call @@ ran @@ [result |-> "Timeout", counted |-> 1]
                 /\ inference_timeout' = inference_timeout + 1
            ELSE /\ predictCall' = call @@ ran
                                        @@ [result |-> "Prediction", counted |-> 0]
                                        @@ run_inference(raw)
                 /\ UNCHANGED inference_timeout
    /\ UNCHANGED <<ensembleCall, loadCall>>

\* One predict call.  `took` is the time run_inference needs, `lag` the time
\* from its completion to the reading of start.elapsed(), `session_ok` whether
\* the ONNX session succeeds, `ran` whether run_inference was started.  A
\* category whose Option is None returns Error::Model("Models NOT loaded ..")
\* before anything else (the result "not_loaded").  tokio::time::timeout returns
\* Elapsed, which map_err turns into Error::Timeout and `?` returns at once,
\* when the inference is not complete at the deadline; the elapsed test and its
\* counter run only after an inference that completed.
PredictFor(categories, model_types, times, raws) ==
    /\ inference_timeout < MaxTimeoutCount
    /\ \E category \in categories, model_type \in model_types, took \in times,
          lag \in {0, 1}, session_ok \in BOOLEAN, raw \in raws :
        LET elapsed == took + lag
            call == [made |-> TRUE, took |-> took, elapsed |-> elapsed,
                     category |-> category, model_type |-> model_type,
                     loaded |-> has_models(category)]
            ran == [ran |-> TRUE]
        IN  IF ~has_models(category)
            THEN /\ predictCall' = call @@ [ran |-> FALSE, result |-> "not_loaded",
                                            counted |-> 0]
                 /\ UNCHANGED inference_timeout
            ELSE IF took > timeout_ms
            THEN /\ predictCall' = call @@ ran @@ [result |-> "Timeout", counted |-> 0]
                 /\ UNCHANGED inference_timeout
            ELSE IF ~session_ok
            THEN /\ predictCall' = call @@ ran @@ [result |-> "Model", counted |-> 0]
                 /\ UNCHANGED inference_timeout
            ELSE IF elapsed > timeout_ms
            THEN /\ predictCall' = call @@ ran @@ [result |-> "Timeout", counted |-> 1]
                 /\ inference_timeout' = inference_timeout + 1
            ELSE /\ predictCall' = call @@ ran
                                        @@ [result |-> "Prediction", counted |-> 0]
                                        @@ run_inference(raw)
                 /\ UNCHANGED inference_timeout
    /\ UNCHANGED <<ensembleCall, loadCall>>

\* predict(CryptoFutures, features, Edge), as decide_with_ml_mandatory calls it.
Predict == PredictFor({"CryptoFutures"}, {"Edge"}, InferenceTimes, RawOutputs)

\* predict for any category and model type.
PredictAny ==
    PredictFor(Categories, ModelTypes, {0, timeout_ms + 1},
               {[edge_bps |-> 100, confidence |-> 60]})

\* The model files of a directory: name -> whether load_model succeeds on it.
ModelNames == {"idec", "transformer", "gbdt", "edge"}
ModelDirs ==
    {[n \in ModelNames |-> TRUE], [n \in ModelNames |-> FALSE]}
    \cup {[n \in ModelNames |-> n # bad] : bad \in ModelNames}

\* ModelSet::load that does not require the edge model.
ModelSet_load_without_edge(files_ok) ==
    files_ok["idec"] /\ files_ok["transformer"] /\ files_ok["gbdt"]

\* ModelSet::load: load_model("idec")?, ("transformer")?, ("gbdt")?, ("edge")?;
\* TRUE for Ok(ModelSet).
ModelSet_load(files_ok) ==
    files_ok["idec"] /\ files_ok["transformer"] /\ files_ok["gbdt"]
    /\ files_ok["edge"]

\* InferencePool::load_crypto: the Option is written only after ModelSet::load
\* returned Ok.
load_crypto ==
    \E files_ok \in ModelDirs :
        /\ crypto_loaded' = (IF ModelSet_load(files_ok) THEN TRUE ELSE crypto_loaded)
        /\ loadCall' = [made |-> TRUE, category |-> "CryptoFutures",
                        files_ok |-> files_ok, before |-> crypto_loaded]
        /\ UNCHANGED <<equity_loaded, predictCall, inference_timeout, ensembleCall>>

\* InferencePool::load_equity
load_equity ==
    \E files_ok \in ModelDirs :
        /\ equity_loaded' = (IF ModelSet_load(files_ok) THEN TRUE ELSE equity_loaded)
        /\ loadCall' = [made |-> TRUE, category |-> "Equity",
                        files_ok |-> files_ok, before |-> equity_loaded]
        /\ UNCHANGED <<crypto_loaded, predictCall, inference_timeout, ensembleCall>>

\* What one predict call of predict_ensemble comes to: an error of predict
\* (models not loaded, a timeout with or without the counter, a failed session)
\* or the Prediction of run_inference.
Failures ==
    {[result |-> "Timeout", counted |-> 0], [result |-> "Timeout", counted |-> 1],
     [result |-> "Model", counted |-> 0]}
Constituents(loaded) ==
    IF ~loaded
    THEN {[result |-> "not_loaded", counted |-> 0]}
    ELSE Failures \cup
         {[result |-> "Prediction", counted |-> 0] @@ run_inference(raw) :
            raw \in RawOutputs}

RECURSIVE SumOver(_, _)
SumOver(f, S) ==
    IF S = {} THEN 0
    ELSE LET i == CHOOSE j \in S : TRUE IN f[i] + SumOver(f, S \ {i})

\* predict_ensemble with the mean taken over all three models, failed or not.
predict_ensemble_mean_of_all(outcomes) ==
    LET ok == {i \in DOMAIN outcomes : outcomes[i].result = "Prediction"}
        total_confidence == SumOver([i \in ok |-> outcomes[i].confidence], ok)
    IN  IF ok = {}
        THEN [result |-> "Model"]
        ELSE [result |-> "Prediction",
              edge_num |-> SumOver([i \in ok |-> outcomes[i].edge_bps
                                                  * outcomes[i].confidence], ok),
              edge_den |-> total_confidence,
              confidence_num |-> total_confidence,
              confidence_den |-> Len(outcomes),
              horizon_ms |-> 5000]

\* predict_ensemble over the outcomes of its predict calls for IDEC, Transformer
\* and GBDT, in this order.  The two results are exact fractions:
\* edge_bps = sum(edge * confidence / total_confidence), which has the
\* numerator sum(edge * confidence) over the denominator total_confidence (0/0
\* is the NaN of the f64 division), and confidence = total_confidence / len.
predict_ensemble(outcomes) ==
    LET predictions == {i \in DOMAIN outcomes : outcomes[i].result = "Prediction"}
        total_confidence ==
            SumOver([i \in predictions |-> outcomes[i].confidence], predictions)
    IN  IF predictions = {}
        THEN [result |-> "Model"]
        ELSE [result |-> "Prediction",
              edge_num |-> SumOver([i \in predictions |->
                              outcomes[i].edge_bps * outcomes[i].confidence],
                              predictions),
              edge_den |-> total_confidence,
              confidence_num |-> total_confidence,
              confidence_den |-> Cardinality(predictions),
              horizon_ms |-> 5000]

\* A caller runs predict_ensemble once for CryptoFutures: three predict calls,
\* each counting its own late completion, then the weighted average.
PredictEnsemble ==
    /\ ~ensembleCall.made
    /\ \E outcomes \in [1..3 -> Constituents(crypto_loaded)] :
        LET counted == outcomes[1].counted + outcomes[2].counted + outcomes[3].counted
        IN  /\ inference_timeout' = inference_timeout + counted
            /\ ensembleCall' = [made |-> TRUE, outcomes |-> outcomes]
                                @@ predict_ensemble(outcomes)
            /\ UNCHANGED <<predictCall, loadCall>>

PoolInit ==
    /\ predictCall = NoCall
    /\ inference_timeout = 0
    /\ ensembleCall = NoCall
    /\ loadCall = NoCall

(***************************************************************************)
(* OrderBookMaintainer (adapters/src/lib.rs:105-186) and the l2Book branch *)
(* of HyperliquidAdapter::handle_ws_message (hyperliquid.rs:81-141).       *)
(* A side of the book is a function from price to quantity, 0 where the    *)
(* BTreeMap has no entry (apply_delta stores only quantities > 0).         *)
(***************************************************************************)
Prices == {99, 100, 101}
Sides == {"Buy", "Sell"}
Quantities == {-1, 0, 1, 2}
MaxDeltas == 4
MaxLevels == 2
Depths == {0, 1, 2}
SnapshotDepth == 20

BookDeltas ==
    [kind : {"Insert", "Update"}, side : Sides, price : Prices, quantity : Quantities]
    \cup [kind : {"Delete"}, side : Sides, price : Prices]
    \cup [kind : {"Clear"}]

EmptySide == [p \in Prices |-> 0]
NoDelta == [kind |-> "None", quantity |-> 0]

\* The same as apply_delta, but sequence moves only when the book changes.
apply_delta_seq_on_change(book, delta) ==
    LET removed(side) == [side EXCEPT ![delta.price] = 0]
        stored(side) == IF delta.quantity > 0
                        THEN [side EXCEPT ![delta.price] = delta.quantity]
                        ELSE removed(side)
        b == IF delta.kind = "Clear" THEN EmptySide
             ELSE IF delta.side # "Buy" THEN book.bids
             ELSE IF delta.kind = "Delete" THEN removed(book.bids)
             ELSE stored(book.bids)
        a == IF delta.kind = "Clear" THEN EmptySide
             ELSE IF delta.side # "Sell" THEN book.asks
             ELSE IF delta.kind = "Delete" THEN removed(book.asks)
             ELSE stored(book.asks)
    IN  [bids |-> b, asks |-> a,
         sequence |-> IF b = book.bids /\ a = book.asks THEN book.sequence
                      ELSE book.sequence + 1]

\* The same as apply_delta, but Insert and Update store any quantity.
apply_delta_store_any(book, delta) ==
    LET removed(side) == [side EXCEPT ![delta.price] = 0]
        stored(side) == [side EXCEPT ![delta.price] = delta.quantity]
    IN  [bids |-> IF delta.kind = "Clear" THEN EmptySide
                  ELSE IF delta.side # "Buy" THEN book.bids
                  ELSE IF delta.kind = "Delete" THEN removed(book.bids)
                  ELSE stored(book.bids),
         asks |-> IF delta.kind = "Clear" THEN EmptySide
                  ELSE IF delta.side # "Sell" THEN book.asks
                  ELSE IF delta.kind = "Delete" THEN removed(book.asks)
                  ELSE stored(book.asks),
         sequence |-> book.sequence + 1]

\* OrderBookMaintainer::apply_delta on book = [bids, asks, sequence]
apply_delta(book, delta) ==
    LET removed(side) == [side EXCEPT ![delta.price] = 0]
        stored(side) == IF delta.quantity > 0
                        THEN [side EXCEPT ![delta.price] = delta.quantity]
                        ELSE removed(side)
    IN  [bids |-> IF delta.kind = "Clear" THEN EmptySide
                  ELSE IF delta.side # "Buy" THEN book.bids
                  ELSE IF delta.kind = "Delete" THEN removed(book.bids)
                  ELSE stored(book.bids),
         asks |-> IF delta.kind = "Clear" THEN EmptySide
                  ELSE IF delta.side # "Sell" THEN book.asks
                  ELSE IF delta.kind = "Delete" THEN removed(book.asks)
                  ELSE stored(book.asks),
         sequence |-> book.sequence + 1]

\* The entries of a side in the iteration order of the BTreeMap (ascending price)
RECURSIVE Ascending(_, _)
Ascending(side, ps) ==
    IF ps = {} THEN <<>>
    ELSE LET p == CHOOSE x \in ps : \A y \in ps : x <= y
         IN  <<[price |-> p, quantity |-> side[p]]>> \o Ascending(side, ps \ {p})

Entries(side) == Ascending(side, {p \in Prices : side[p] # 0})

\* Iterator::rev
Reverse(q) == [i \in 1..Len(q) |-> q[Len(q) + 1 - i]]

\* Iterator::take
Take(q, n) == SubSeq(q, 1, Min(n, Len(q)))

\* The same as to_orderbook, but the bids are not reversed.
to_orderbook_unreversed(book, depth) ==
    [bids |-> Take(Entries(book.bids), depth),
     asks |-> Take(Entries(book.asks), depth),
     sequence |-> book.sequence]

\* OrderBookMaintainer::to_orderbook
to_orderbook(book, depth) ==
    [bids |-> Take(Reverse(Entries(book.bids)), depth),
     asks |-> Take(Entries(book.asks), depth),
     sequence |-> book.sequence]

Book == [bids |-> bids, asks |-> asks, sequence |-> sequence]

\* history: the last delta for (side, price) since the last Clear
Recorded(hist, delta) ==
    IF delta.kind = "Clear" THEN [k \in Sides \X Prices |-> NoDelta]
    ELSE [hist EXCEPT ![<<delta.side, delta.price>>] =
            IF delta.kind = "Delete" THEN [kind |-> "Delete", quantity |-> 0]
            ELSE [kind |-> "Set", quantity |-> delta.quantity]]

\* A caller applies one delta.
ApplyDelta ==
    /\ applied < MaxDeltas
    /\ \E delta \in BookDeltas :
        LET nb == apply_delta(Book, delta)
        IN  /\ bids' = nb.bids
            /\ asks' = nb.asks
            /\ sequence' = nb.sequence
            /\ last_delta' = Recorded(last_delta, delta)
    /\ applied' = applied + 1
    /\ book_out' = NoCall
    /\ UNCHANGED snapshot_q

\* A caller takes a snapshot of the book at some depth.
ToOrderbook ==
    /\ \E depth \in Depths :
        book_out' = [made |-> TRUE, sent |-> FALSE, stale |-> FALSE, depth |-> depth]
                    @@ to_orderbook(Book, depth)
    /\ UNCHANGED <<bids, asks, sequence, applied, last_delta, snapshot_q>>

\* The levels of an l2Book message: each level becomes an Update delta.
RECURSIVE ApplyLevels(_, _)
ApplyLevels(book, levels) ==
    IF levels = <<>> THEN book
    ELSE ApplyLevels(apply_delta(book, Head(levels)), Tail(levels))

RECURSIVE RecordLevels(_, _)
RecordLevels(hist, levels) ==
    IF levels = <<>> THEN hist
    ELSE RecordLevels(Recorded(hist, Head(levels)), Tail(levels))

L2Levels == [kind : {"Update"}, side : Sides, price : {99, 101}, quantity : {1}]

\* handle_ws_message for an l2Book message: every level is applied as an Update,
\* then to_orderbook(time, 20) is sent on snapshot_tx.  MarketSnapshot and
\* OrderBook have no stale field: the snapshot goes out as a live one.  The
\* channel is mpsc::unbounded_channel (hyperliquid.rs:27): send never waits,
\* never fails while the adapter holds the receiver, and drops nothing.
HandleL2Book ==
    \E n \in 1..MaxLevels :
        /\ applied + n <= MaxDeltas
        /\ \E levels \in [1..n -> L2Levels] :
            LET nb == ApplyLevels(Book, levels)
            IN  /\ bids' = nb.bids
                /\ asks' = nb.asks
                /\ sequence' = nb.sequence
                /\ last_delta' = RecordLevels(last_delta, levels)
                /\ book_out' = [made |-> TRUE, sent |-> TRUE, stale |-> FALSE,
                                depth |-> SnapshotDepth]
                               @@ to_orderbook(nb, SnapshotDepth)
        /\ applied' = applied + n
        /\ snapshot_q' = snapshot_q + 1

BookInit ==
    /\ bids = EmptySide
    /\ asks = EmptySide
    /\ sequence = 0
    /\ applied = 0
    /\ last_delta = [k \in Sides \X Prices |-> NoDelta]
    /\ book_out = NoCall
    /\ snapshot_q = 0

(***************************************************************************)
(* The two producers of a RouteDecision, on arbitrary arguments.           *)
(***************************************************************************)
\* The actions the samplers of the agent return (rl_agent.rs:148-191): an argmax
\* over three logits, a value clamped to [-1, 1], and argmaxes over 3, 5 and 4.
SampledActions ==
    [kind : {"Discrete"}, idx : 0..2, confidence : {1000}]
    \cup [kind : {"Continuous"}, size : {-1000, -501, -10, 0, 10, 11, 500, 1000},
          confidence : {1000}]
    \cup [kind : {"MultiDiscrete"}, style : 0..2, size : 0..4, duration : 0..3,
          confidence : {1000}]

\* A caller runs OrderRouter::decide once, in the current risk state.
RouterDecide ==
    /\ ~routeCall.made
    /\ \E params \in GateParamSets, prediction \in Predictions, feat \in FeatureVecs,
          costs \in CostModels :
        routeCall' = [made |-> TRUE, by |-> "decide", confidence |-> prediction.confidence,
                      decision |-> decide(params, positions, daily_pnl, kill_switch,
                                          prediction, feat, costs)]

\* A caller runs RLAgent::to_route_decision once.
RLRoute ==
    /\ ~routeCall.made
    /\ \E action \in SampledActions :
        routeCall' = [made |-> TRUE, by |-> "to_route_decision", confidence |-> 0,
                      decision |-> to_route_decision(action)]

RouteInit == routeCall = NoCall

(***************************************************************************)
(* RateLimiter (adapters/src/rate_limiter.rs).  Time is counted in ticks   *)
(* and refill_rate in tokens per tick.  The tokio Semaphore is fair: a     *)
(* released permit goes to the waiter at the head of its queue.            *)
(***************************************************************************)
\* RateLimiter::new(capacity, refill_per_sec)
BucketCapacity == 2
RefillRate == 1
MaxClock == 2
MaxGrants == 4
Callers == {1, 2, 3}

\* The number of guards alive, each holding one permit of the semaphore.
Outstanding == Cardinality({c \in Callers : lim_pc[c] = "holding"})

\* The refill block of acquire (rate_limiter.rs:36-44).
Refill ==
    /\ available' = Min(available + (lim_now - last_refill) * RefillRate,
                        BucketCapacity)
    /\ last_refill' = lim_now

\* acquire up to its await: the refill.
AcquireRefill(c) ==
    /\ lim_pc[c] = "idle"
    /\ granted < MaxGrants
    /\ Refill
    /\ lim_pc' = [lim_pc EXCEPT ![c] = "acquiring"]
    /\ UNCHANGED <<lim_now, sem_queue, grant, granted>>

\* acquire_owned that also waits while the bucket holds less than one token.
AcquirePermitNeedsToken(c) ==
    /\ lim_pc[c] = "acquiring"
    /\ IF Outstanding < BucketCapacity /\ available >= 1
       THEN /\ lim_pc' = [lim_pc EXCEPT ![c] = "holding"]
            /\ grant' = [made |-> TRUE, available |-> available, waited |-> FALSE]
            /\ granted' = granted + 1
            /\ UNCHANGED sem_queue
       ELSE /\ lim_pc' = [lim_pc EXCEPT ![c] = "waiting"]
            /\ sem_queue' = Append(sem_queue, c)
            /\ UNCHANGED <<grant, granted>>
    /\ UNCHANGED <<available, last_refill, lim_now>>

\* semaphore.acquire_owned().await (rate_limiter.rs:47): the guard is returned
\* at once when a permit is free, whatever the bucket holds; otherwise the
\* caller joins the queue of the semaphore.
AcquirePermit(c) ==
    /\ lim_pc[c] = "acquiring"
    /\ IF Outstanding < BucketCapacity
       THEN /\ lim_pc' = [lim_pc EXCEPT ![c] = "holding"]
            /\ grant' = [made |-> TRUE, available |-> available, waited |-> FALSE]
            /\ granted' = granted + 1
            /\ UNCHANGED sem_queue
       ELSE /\ lim_pc' = [lim_pc EXCEPT ![c] = "waiting"]
            /\ sem_queue' = Append(sem_queue, c)
            /\ UNCHANGED <<grant, granted>>
    /\ UNCHANGED <<available, last_refill, lim_now>>

\* try_acquire up to the end of its locked block (rate_limiter.rs:56-71): the
\* refill, and None when the bucket holds less than one token.
TryRefill(c) ==
    /\ lim_pc[c] = "idle"
    /\ granted < MaxGrants
    /\ Refill
    /\ IF available' < 1
       THEN /\ grant' = [made |-> FALSE, by |-> "try_acquire", available |-> available',
                         tokens_ok |-> FALSE, permit_ok |-> FALSE, waited |-> FALSE]
            /\ UNCHANGED lim_pc
       ELSE /\ lim_pc' = [lim_pc EXCEPT ![c] = "trying"]
            /\ UNCHANGED grant
    /\ UNCHANGED <<lim_now, sem_queue, granted>>

\* try_acquire_owned().ok()? (rate_limiter.rs:73-78): Some(guard) when a
\* permit is free, None otherwise; the caller never joins the queue.
TryPermit(c) ==
    /\ lim_pc[c] = "trying"
    /\ IF Outstanding < BucketCapacity
       THEN /\ lim_pc' = [lim_pc EXCEPT ![c] = "holding"]
            /\ grant' = [made |-> TRUE, by |-> "try_acquire", available |-> available,
                         tokens_ok |-> TRUE, permit_ok |-> TRUE, waited |-> FALSE]
            /\ granted' = granted + 1
       ELSE /\ lim_pc' = [lim_pc EXCEPT ![c] = "idle"]
            /\ grant' = [made |-> FALSE, by |-> "try_acquire", available |-> available,
                         tokens_ok |-> TRUE, permit_ok |-> FALSE, waited |-> FALSE]
            /\ UNCHANGED granted
    /\ UNCHANGED <<available, last_refill, lim_now, sem_queue>>

\* The drop taking a token the bucket may not hold.
take_token_unchecked(a) == a - 1

\* bucket.available = (bucket.available - 1.0).max(0.0) (rate_limiter.rs:89)
take_token(a) == Max(a - 1, 0)

\* Drop for RateLimitGuard (rate_limiter.rs:86-91), then the drop of its
\* permit: one token is taken from the bucket, and the permit goes to the
\* first waiter, whose acquire returns.
DropGuard(c) ==
    /\ lim_pc[c] = "holding"
    /\ available' = take_token(available)
    /\ IF sem_queue # <<>>
       THEN /\ lim_pc' = [lim_pc EXCEPT ![c] = "idle", ![Head(sem_queue)] = "holding"]
            /\ sem_queue' = Tail(sem_queue)
            /\ grant' = [made |-> TRUE, available |-> available', waited |-> TRUE]
            /\ granted' = granted + 1
       ELSE /\ lim_pc' = [lim_pc EXCEPT ![c] = "idle"]
            /\ UNCHANGED <<sem_queue, grant, granted>>
    /\ UNCHANGED <<last_refill, lim_now>>

\* Time passes.
LimTick ==
    /\ lim_now < MaxClock
    /\ lim_now' = lim_now + 1
    /\ UNCHANGED <<available, last_refill, lim_pc, sem_queue, grant, granted>>

\* RateLimiter::new: a full bucket, all permits free.
LimiterInit ==
    /\ available = BucketCapacity
    /\ last_refill = 0
    /\ lim_now = 0
    /\ lim_pc = [c \in Callers |-> "idle"]
    /\ sem_queue = <<>>
    /\ grant = NoCall
    /\ granted = 0

(***************************************************************************)
(* The performance and risk streams of the metrics server (ws_server.rs). *)
(* Each is a tokio watch channel; MetricsState holds the Receiver that     *)
(* watch::channel returned and never calls changed or borrow_and_update on *)
(* it, so that Receiver, and every clone axum makes of the state, has seen *)
(* the initial version only.  A clone of a Receiver has seen what the      *)
(* original has seen, and changed() is ready whenever the channel's        *)
(* version differs from the one seen.                                      *)
(***************************************************************************)
Streams == {"performance", "risk"}
MaxPublishes == 2
MetricValues == {1, 2}
NoSubscriber == [state |-> "none", seen |-> 0, connected_at |-> 0, sent |-> 0, last |-> 0]

\* The metrics updater of main sends engine.get_metrics() on perf_tx
\* (main.rs:250-258).  Nothing sends on risk_tx.
Publish ==
    /\ tv_version["performance"] < MaxPublishes
    /\ \E v \in MetricValues :
        tv_value' = [tv_value EXCEPT !["performance"] = v]
    /\ tv_version' = [tv_version EXCEPT !["performance"] = @ + 1]
    /\ UNCHANGED sub

\* A handler that subscribes at the current version of the channel.
ConnectMarkSeen(s) ==
    /\ sub[s].state = "none"
    /\ sub' = [sub EXCEPT ![s] = [state |-> "connected", seen |-> tv_version[s],
                                  connected_at |-> tv_version[s], sent |-> 0,
                                  last |-> 0]]
    /\ UNCHANGED <<tv_version, tv_value>>

\* handle_metrics_socket and handle_risk_socket up to their loop
\* (ws_server.rs:41-42, 78-79): the Receiver of the state is cloned.
\* `connected_at` records the version of the channel at that moment.
Connect(s) ==
    /\ sub[s].state = "none"
    /\ sub' = [sub EXCEPT ![s] = [state |-> "connected", seen |-> 0,
                                  connected_at |-> tv_version[s], sent |-> 0,
                                  last |-> 0]]
    /\ UNCHANGED <<tv_version, tv_value>>

\* One round of the loop (ws_server.rs:44-64, 81-101): changed() resolves
\* and marks the version seen, the value is borrowed and serialized, and the
\* socket takes it or fails, which ends the handler.
Deliver(s) ==
    /\ sub[s].state = "connected"
    /\ sub[s].seen # tv_version[s]
    /\ \/ sub' = [sub EXCEPT ![s].seen = tv_version[s], ![s].sent = @ + 1,
                              ![s].last = tv_value[s]]
       \/ sub' = [sub EXCEPT ![s].seen = tv_version[s], ![s].state = "closed"]
    /\ UNCHANGED <<tv_version, tv_value>>

\* watch::channel(Default::default()) for both streams, no subscriber yet.
TelemetryInit ==
    /\ tv_version = [s \in Streams |-> 0]
    /\ tv_value = [s \in Streams |-> 0]
    /\ sub = [s \in Streams |-> NoSubscriber]

(***************************************************************************)
(* The alert stream (ws_server.rs:115-142): a tokio broadcast channel that *)
(* retains the last AlertCapacity alerts.  Alerts are numbered 1, 2, ...   *)
(* in the order they are sent.                                             *)
(***************************************************************************)
AlertCapacity == 2
MaxAlerts == 4
NoAlertSubscriber ==
    [state |-> "none", next |-> 0, delivered |-> 0, lagged |-> FALSE]

\* AlertPublisher::publish: tx.send(alert), whose result is ignored.
PublishAlert ==
    /\ alert_sent < MaxAlerts
    /\ alert_sent' = alert_sent + 1
    /\ UNCHANGED alert_sub

\* handle_alerts_socket up to its loop: alert_tx.subscribe(), which receives
\* the alerts sent from now on.
ConnectAlerts ==
    /\ alert_sub.state = "none"
    /\ alert_sub' = [NoAlertSubscriber EXCEPT !.state = "connected",
                                             !.next = alert_sent + 1]
    /\ UNCHANGED alert_sent

\* One round of the loop with an alert to receive.  recv answers
\* Err(Lagged(n)) when the alert the subscriber is at has left the channel,
\* and `Err(_) => break` ends the handler; otherwise the alert is sent on the
\* socket, whose failure ends the handler as well.
RecvAlert ==
    /\ alert_sub.state = "connected"
    /\ alert_sub.next <= alert_sent
    /\ IF alert_sent - alert_sub.next >= AlertCapacity
       THEN alert_sub' = [alert_sub EXCEPT !.state = "closed", !.lagged = TRUE]
       ELSE \/ alert_sub' = [alert_sub EXCEPT !.next = @ + 1, !.delivered = @ + 1]
            \/ alert_sub' = [alert_sub EXCEPT !.state = "closed"]
    /\ UNCHANGED alert_sent

AlertInit == alert_sent = 0 /\ alert_sub = NoAlertSubscriber

AuxInit ==
    PoolInit /\ BookInit /\ RouteInit /\ LimiterInit /\ TelemetryInit /\ AlertInit

\* A newly constructed engine: no ML models loaded, no adapter.
Fresh == crypto_loaded = FALSE /\ equity_loaded = FALSE /\ adapters = FALSE

\* An engine after a successful load_models and add_adapter.
Loaded == crypto_loaded = TRUE /\ equity_loaded = TRUE /\ adapters = TRUE

Init == RiskInit /\ GateInit /\ EngineInit /\ AuxInit /\ Fresh

\* The components that do not read the EngineConfig are run in an engine with one
\* configuration.
ComponentInit ==
    /\ Init
    /\ mode = "Paper"
    /\ decision_mode = "RLAgent"
    /\ batch_size = 1
    /\ batch_timeout_ms = 1

\* TradeGate.check applied to every combination of arguments.
GateNext == GateCheck /\ UNCHANGED <<riskVars, engineVars, auxVars>>
SpecGate == ComponentInit /\ [][GateNext]_vars

\* The RiskManager driven by arbitrary callers.
RiskOnlyNext == RiskNext /\ UNCHANGED <<gateVars, engineVars, auxVars>>
SpecRisk == ComponentInit /\ [][RiskOnlyNext]_vars

\* The decision pipeline of the engine: start-up, snapshots, signals and orders,
\* with other threads switching the kill switch and filling a position through
\* get_risk_manager().  The clock stands still and no shutdown is sent.
FillPosition == UpdatePositionOf({"BTC"}, {-5})

DecideNext ==
    \/ LoadModels /\ UNCHANGED <<riskVars, gateVars, auxVars>>
    \/ AddAdapter /\ UNCHANGED <<riskVars, gateVars, auxVars>>
    \/ Run /\ UNCHANGED <<riskVars, gateVars, auxVars>>
    \/ Arrive /\ UNCHANGED <<riskVars, gateVars, auxVars>>
    \/ Recv /\ UNCHANGED <<riskVars, gateVars, auxVars>>
    \/ StartSignal /\ UNCHANGED <<riskVars, gateVars, auxVars>>
    \/ InferDone /\ UNCHANGED <<riskVars, gateVars, auxVars>>
    \/ ExecuteTrade /\ UNCHANGED <<riskVars, gateVars, auxVars>>
    \/ SendDone /\ UNCHANGED <<riskVars, gateVars, auxVars>>
    \/ ActivateKillSwitch /\ UNCHANGED <<gateVars, engineVars, auxVars>>
    \/ DeactivateKillSwitch /\ UNCHANGED <<gateVars, engineVars, auxVars>>
    \/ FillPosition /\ UNCHANGED <<gateVars, engineVars, auxVars>>
SpecDecide == Init /\ [][DecideNext]_vars

\* The batcher and the life of the processing task, from an engine whose models
\* are loaded and whose adapter is added: run starts, the clock runs, snapshots
\* of one symbol arrive, the shutdown is sent.  The risk state is left alone.
ArriveBTC == ArriveOf({"BTC"})

BatchInit == RiskInit /\ GateInit /\ EngineInit /\ AuxInit /\ Loaded

BatchNext ==
    \/ Run /\ UNCHANGED <<riskVars, gateVars, auxVars>>
    \/ ArriveBTC /\ UNCHANGED <<riskVars, gateVars, auxVars>>
    \/ TickMono /\ UNCHANGED <<riskVars, gateVars, auxVars>>
    \/ Recv /\ UNCHANGED <<riskVars, gateVars, auxVars>>
    \/ StartSignal /\ UNCHANGED <<riskVars, gateVars, auxVars>>
    \/ InferDone /\ UNCHANGED <<riskVars, gateVars, auxVars>>
    \/ ExecuteTrade /\ UNCHANGED <<riskVars, gateVars, auxVars>>
    \/ SendDone /\ UNCHANGED <<riskVars, gateVars, auxVars>>
    \/ Shutdown /\ UNCHANGED <<riskVars, gateVars, auxVars>>
    \/ RunStops /\ UNCHANGED <<riskVars, gateVars, auxVars>>
    \/ TaskCancelled /\ UNCHANGED <<riskVars, gateVars, auxVars>>
SpecBatch == BatchInit /\ [][BatchNext]_vars

\* The batcher of a started engine in Live mode: snapshots of both symbols
\* arrive while the clock runs, batches are flushed and their signals processed.
OrderInit ==
    /\ BatchInit
    /\ mode = "Live"
    /\ batch_size = MaxBatchSize
    /\ batch_timeout_ms = MaxTimeoutMs

OrderNext ==
    \/ Run /\ UNCHANGED <<riskVars, gateVars, auxVars>>
    \/ Arrive /\ UNCHANGED <<riskVars, gateVars, auxVars>>
    \/ TickMono /\ UNCHANGED <<riskVars, gateVars, auxVars>>
    \/ Recv /\ UNCHANGED <<riskVars, gateVars, auxVars>>
    \/ StartSignal /\ UNCHANGED <<riskVars, gateVars, auxVars>>
    \/ InferDone /\ UNCHANGED <<riskVars, gateVars, auxVars>>
    \/ ExecuteTrade /\ UNCHANGED <<riskVars, gateVars, auxVars>>
    \/ SendDone /\ UNCHANGED <<riskVars, gateVars, auxVars>>
SpecOrder == OrderInit /\ [][OrderNext]_vars

\* The decision pipeline of a started engine while other threads call set_mode.
ModeInit == BatchInit /\ batch_size = 1 /\ batch_timeout_ms = 1

ModeNext ==
    \/ Run /\ UNCHANGED <<riskVars, gateVars, auxVars>>
    \/ ArriveBTC /\ UNCHANGED <<riskVars, gateVars, auxVars>>
    \/ Recv /\ UNCHANGED <<riskVars, gateVars, auxVars>>
    \/ StartSignal /\ UNCHANGED <<riskVars, gateVars, auxVars>>
    \/ InferDone /\ UNCHANGED <<riskVars, gateVars, auxVars>>
    \/ ExecuteTrade /\ UNCHANGED <<riskVars, gateVars, auxVars>>
    \/ SendDone /\ UNCHANGED <<riskVars, gateVars, auxVars>>
    \/ SetMode /\ UNCHANGED <<riskVars, gateVars, auxVars>>
SpecMode == ModeInit /\ [][ModeNext]_vars

\* A started engine and its adapter: run spawns the processing task on the
\* receiver of its own channel (lib.rs:218-225), the adapter handles l2Book
\* messages, the shutdown is sent.  Nothing sends on market_tx, and nothing
\* takes the receiver of the adapter (snapshot_receiver has no caller).
WireInit == ModeInit /\ mode = "Live" /\ decision_mode = "RLAgent"

WireNext ==
    \/ Run /\ UNCHANGED <<riskVars, gateVars, auxVars>>
    \/ HandleL2Book /\ UNCHANGED <<riskVars, gateVars, engineVars, poolVars, routeVars, limiterVars, telemetryVars, alertVars>>
    \/ Shutdown /\ UNCHANGED <<riskVars, gateVars, auxVars>>
    \/ RunStops /\ UNCHANGED <<riskVars, gateVars, auxVars>>
    \/ TaskCancelled /\ UNCHANGED <<riskVars, gateVars, auxVars>>
SpecWire == WireInit /\ [][WireNext]_vars

\* The rate limiter of an adapter used by three callers while time passes.
restVars ==
    <<riskVars, gateVars, engineVars, poolVars, bookVars, routeVars, telemetryVars,
      alertVars>>

LimiterNext ==
    \/ \E c \in Callers : AcquireRefill(c) /\ UNCHANGED restVars
    \/ \E c \in Callers : AcquirePermit(c) /\ UNCHANGED restVars
    \/ \E c \in Callers : DropGuard(c) /\ UNCHANGED restVars
    \/ LimTick /\ UNCHANGED restVars
SpecLimiter == ComponentInit /\ [][LimiterNext]_vars

\* The rate limiter used through acquire and try_acquire.
LimiterTryNext ==
    \/ LimiterNext
    \/ \E c \in Callers : TryRefill(c) /\ UNCHANGED restVars
    \/ \E c \in Callers : TryPermit(c) /\ UNCHANGED restVars
SpecLimiterTry == ComponentInit /\ [][LimiterTryNext]_vars

\* The same with every guard dropped in the end and every caller in acquire
\* scheduled.
SpecLimiterLive ==
    /\ SpecLimiter
    /\ \A c \in Callers :
        /\ WF_vars(AcquirePermit(c) /\ UNCHANGED restVars)
        /\ WF_vars(DropGuard(c) /\ UNCHANGED restVars)

\* The metrics server: the updater publishes, subscribers connect, the
\* handlers run; a handler whose changed() is ready is scheduled.
nonTelemetryVars ==
    <<riskVars, gateVars, engineVars, poolVars, bookVars, routeVars, limiterVars,
      alertVars>>

TelemetryNext ==
    \/ Publish /\ UNCHANGED nonTelemetryVars
    \/ \E s \in Streams : Connect(s) /\ UNCHANGED nonTelemetryVars
    \/ \E s \in Streams : Deliver(s) /\ UNCHANGED nonTelemetryVars
SpecTelemetry ==
    /\ ComponentInit
    /\ [][TelemetryNext]_vars
    /\ \A s \in Streams : WF_vars(Deliver(s) /\ UNCHANGED nonTelemetryVars)

\* The alert stream: alerts are published, a subscriber connects, its handler
\* runs.
nonAlertVars ==
    <<riskVars, gateVars, engineVars, poolVars, bookVars, routeVars, limiterVars,
      telemetryVars>>

AlertNext ==
    \/ PublishAlert /\ UNCHANGED nonAlertVars
    \/ ConnectAlerts /\ UNCHANGED nonAlertVars
    \/ RecvAlert /\ UNCHANGED nonAlertVars
SpecAlerts == Init /\ [][AlertNext]_vars

\* The inference pool by itself: load_crypto, load_equity and predict called in
\* any order on a new pool.
loadFrame ==
    <<mode, configVars, adapters, phase, shutdown, abort_requested, chan, arrived, pc,
      batch, idx, cur_features, pending, decision, last_order, mono, last_flush,
      last_kernel, last_push, flush_info>>
nonPoolVars ==
    <<riskVars, gateVars, bookVars, routeVars, limiterVars, telemetryVars, alertVars>>

LoadNext ==
    \/ load_crypto /\ UNCHANGED <<loadFrame, nonPoolVars>>
    \/ load_equity /\ UNCHANGED <<loadFrame, nonPoolVars>>
    \/ PredictAny /\ UNCHANGED <<engineVars, nonPoolVars>>
SpecLoad == ComponentInit /\ [][LoadNext]_vars

\* The inference pool: models are loaded (or fail to load) and predict is called.
PoolNext ==
    \/ LoadModels /\ UNCHANGED <<riskVars, gateVars, auxVars>>
    \/ Predict /\ UNCHANGED <<riskVars, gateVars, engineVars, bookVars, routeVars, limiterVars, telemetryVars, alertVars>>
SpecPool == Init /\ [][PoolNext]_vars

\* The ensemble: models are loaded (or fail to load) and predict_ensemble is
\* called.
EnsembleNext ==
    \/ LoadModels /\ UNCHANGED <<riskVars, gateVars, auxVars>>
    \/ PredictEnsemble /\ UNCHANGED <<riskVars, gateVars, engineVars, bookVars, routeVars, limiterVars, telemetryVars, alertVars>>
SpecEnsemble == ComponentInit /\ [][EnsembleNext]_vars

\* The order book of one symbol, driven by its venue: single deltas, l2Book
\* messages and snapshots.

BookNext ==
    \/ ApplyDelta /\ UNCHANGED <<riskVars, gateVars, engineVars, poolVars, routeVars, limiterVars, telemetryVars, alertVars>>
    \/ ToOrderbook /\ UNCHANGED <<riskVars, gateVars, engineVars, poolVars, routeVars, limiterVars, telemetryVars, alertVars>>
    \/ HandleL2Book /\ UNCHANGED <<riskVars, gateVars, engineVars, poolVars, routeVars, limiterVars, telemetryVars, alertVars>>
SpecBook == ComponentInit /\ [][BookNext]_vars

\* RouteDecisions from both producers.
RouteNext ==
    \/ RouterDecide /\ UNCHANGED <<riskVars, gateVars, engineVars, poolVars, bookVars, limiterVars, telemetryVars, alertVars>>
    \/ RLRoute /\ UNCHANGED <<riskVars, gateVars, engineVars, poolVars, bookVars, limiterVars, telemetryVars, alertVars>>
SpecRoute == Init /\ [][RouteNext]_vars

(***************************************************************************)
(* C1  In every decision mode (RLAgent, MLTraditional, Hybrid), every      *)
(* order the engine submits to an adapter via send_order is for a signal   *)
(* on which TradeGate.check returned Pass.                                 *)
(***************************************************************************)
C1_NoOrderBypassesGate ==
    last_order.made => last_order.gate = "pass"

(***************************************************************************)
(* C2  Once activate_kill_switch has completed and until                   *)
(* deactivate_kill_switch is called, the engine submits no order to any    *)
(* adapter, in every interleaving of the activation with the decision step *)
(* and the execute_trade step: no send_order is called while the kill      *)
(* switch is active.                                                       *)
(***************************************************************************)
C2_NoOrderUnderKillSwitch ==
    last_order.made => ~last_order.kill

(***************************************************************************)
(* C3  Kill-switch dominance: TradeGate.check returns Reject for every     *)
(* prediction, feature vector, cost model and gate parameter setting       *)
(* whenever the risk state has kill_switch_active = TRUE.                  *)
(***************************************************************************)
C3_KillSwitchDominance ==
    (gateCall.made /\ gateCall.risk.kill_switch_active) => ~gateCall.result.pass

\* check ran with the kill switch active on arguments that pass every other test.
C3_Witness ==
    /\ gateCall.made
    /\ gateCall.risk.kill_switch_active
    /\ gateCall.result.reason = "Kill switch active"

(***************************************************************************)
(* C4  For every RouteDecision with should_trade = TRUE that the engine    *)
(* produces in any decision mode, check_limits(symbol, mid_price *         *)
(* size_fraction) returns Ok in the risk state at decision time.           *)
(***************************************************************************)
C4_ShouldTradeWithinLimits ==
    (decision.made /\ decision.should_trade) => decision.limits_ok

(***************************************************************************)
(* C5  check_limits(symbol, n) returns a RiskCheck error whenever the kill *)
(* switch is active, or daily_pnl < -max_loss_per_day, or                  *)
(* current_notional + n > max_total_notional, or the symbol's existing     *)
(* notional (0 when the symbol has no position) + n >                      *)
(* max_notional_per_symbol; it returns Ok only when none of these holds.   *)
(***************************************************************************)
SymbolNotional(pos, s) ==
    IF pos[s].present THEN Abs(pos[s].size) * pos[s].mark_price ELSE 0

C5_CheckLimitsExact ==
    riskCall.made =>
        (riskCall.result.ok <=>
            ~ \/ kill_switch
              \/ daily_pnl < -max_loss_per_day
              \/ SumNotional(positions, Symbols) + riskCall.n > max_total_notional
              \/ SymbolNotional(positions, riskCall.symbol) + riskCall.n
                    > max_notional_per_symbol)

(***************************************************************************)
(* C6  Daily-loss tripwire: once update_pnl has made                       *)
(* daily_pnl < -max_loss_per_day, check_limits rejects on every later call *)
(* (also after positive update_pnl calls that bring daily_pnl back above   *)
(* -max_loss_per_day) until a daily reset of daily_pnl.                    *)
(***************************************************************************)
C6_DailyLossTripwire ==
    (riskCall.made /\ tripped) => ~riskCall.result.ok

(***************************************************************************)
(* C7  Every batch the batcher flushes to compute_batch satisfies          *)
(* 1 <= |batch| <= batch_size and (|batch| = batch_size or the time since  *)
(* the last flush >= batch_timeout_ms), for every batch_size,              *)
(* batch_timeout_ms and arrival sequence, the flush that follows a batch   *)
(* dropped on kernel failure included.                                     *)
(***************************************************************************)
C7_FlushedBatchWellFormed ==
    flush_info.made =>
        /\ 1 <= flush_info.size
        /\ flush_info.size <= batch_size
        /\ \/ flush_info.size = batch_size
           \/ flush_info.since >= batch_timeout_ms

(***************************************************************************)
(* C8  Batcher liveness: if at least one snapshot has been pushed into the *)
(* batch buffer and no further snapshot arrives, the buffered snapshots    *)
(* are flushed within batch_timeout_ms + Delta: the batcher never waits    *)
(* with a non-empty buffer on an idle channel for longer than that.        *)
(***************************************************************************)
C8_BatcherLiveness ==
    ~ /\ pc = "recv"
      /\ ~shutdown
      /\ batch # <<>>
      /\ chan = <<>>
      /\ mono - last_push > batch_timeout_ms + Delta

(***************************************************************************)
(* C9  When the shutdown signal arrives while a batch is being flushed,    *)
(* that flush runs to completion before the processing task stops, and     *)
(* snapshots already buffered are drained rather than discarded: the task  *)
(* never stops inside a flush or with snapshots in its buffer.             *)
(***************************************************************************)
C9_ShutdownCompletesFlush ==
    pc = "aborted" => (idx = 0 /\ batch = <<>>)

(***************************************************************************)
(* C10  The engine does not enter the run state unless the models required *)
(* by the configured DecisionMode are loaded: after a failed or omitted    *)
(* load_models, run does not start processing signals.                     *)
(***************************************************************************)
C10_RunRequiresReadiness ==
    phase = "running" => Readiness(decision_mode)

(***************************************************************************)
(* C11  Every predict call whose inference does not complete within        *)
(* inference_timeout_ms returns a Timeout error, returns no Prediction,    *)
(* and increments the inference_timeout counter exactly once.              *)
(***************************************************************************)
C11_TimeoutCounted ==
    (predictCall.made /\ predictCall.result # "not_loaded"
        /\ predictCall.took > timeout_ms)
    => (predictCall.result = "Timeout" /\ predictCall.counted = 1)

\* The OrderBook returned has a level on both sides.
BothSides(ob) == ob.bids # <<>> /\ ob.asks # <<>>

(***************************************************************************)
(* C12  Every snapshot emitted by the book maintainer with both sides      *)
(* non-empty has best_bid.price < best_ask.price, after any sequence of    *)
(* venue deltas applied to that symbol.                                    *)
(***************************************************************************)
C12_SnapshotNotCrossed ==
    (book_out.made /\ BothSides(book_out))
    => Head(book_out.bids).price < Head(book_out.asks).price

(***************************************************************************)
(* C13  When an update leaves a symbol's book crossed (best_bid >=         *)
(* best_ask), snapshots produced while it is crossed carry the stale flag, *)
(* so that feature computation skips them: no snapshot of a crossed book   *)
(* is sent to the engine without the flag.                                 *)
(***************************************************************************)
C13_CrossedSnapshotFlagged ==
    (book_out.made /\ book_out.sent /\ BothSides(book_out)
        /\ Head(book_out.bids).price >= Head(book_out.asks).price)
    => book_out.stale

(***************************************************************************)
(* C14  Every apply_delta call (Insert, Update, Delete or Clear, a Delete  *)
(* of an absent price and an Update with quantity 0 included) increases    *)
(* the sequence by exactly 1: sequence equals the number of deltas         *)
(* applied.                                                                *)
(***************************************************************************)
C14_SequenceCountsDeltas == sequence = applied

\* Deltas were applied of which one was a Delete of a level that was absent or an
\* Update with a quantity <= 0, so that the book holds fewer levels than deltas.
C14_Witness ==
    /\ applied >= 2
    /\ \E k \in Sides \X Prices :
         \/ last_delta[k].kind = "Delete"
         \/ last_delta[k].kind = "Set" /\ last_delta[k].quantity <= 0

SideOf(s) == IF s = "Buy" THEN bids ELSE asks

(***************************************************************************)
(* C15  After any sequence of deltas, a side of the book holds a level at  *)
(* price p exactly when the last delta for (side, p) since the last Clear  *)
(* was an Insert or Update with quantity > 0, and then with that delta's   *)
(* quantity (so an Insert or Update with quantity <= 0 acts as Delete, a   *)
(* Delete of an absent level changes nothing, and Clear empties both       *)
(* sides).                                                                 *)
(***************************************************************************)
C15_BookIsLastDeltas ==
    \A s \in Sides, p \in Prices :
        SideOf(s)[p] =
            IF last_delta[<<s, p>>].kind = "Set" /\ last_delta[<<s, p>>].quantity > 0
            THEN last_delta[<<s, p>>].quantity
            ELSE 0

\* One level was removed by an Update with a quantity <= 0 and another is held.
C15_Witness ==
    /\ \E k \in Sides \X Prices :
         last_delta[k].kind = "Set" /\ last_delta[k].quantity <= 0
    /\ \E k \in Sides \X Prices :
         last_delta[k].kind = "Set" /\ last_delta[k].quantity > 0

\* q holds exactly the `depth` best levels of `side`, best first, where `better`
\* orders the prices.
BestLevels(q, side, depth, better(_, _)) ==
    LET held == {p \in Prices : side[p] # 0}
        out == {q[i].price : i \in 1..Len(q)}
    IN  /\ Len(q) = Min(depth, Cardinality(held))
        /\ \A i \in 1..Len(q) : q[i].price \in held /\ q[i].quantity = side[q[i].price]
        /\ \A i \in 1..Len(q), j \in 1..Len(q) : i < j => better(q[i].price, q[j].price)
        /\ \A p \in held \ out : \A i \in 1..Len(q) : better(q[i].price, p)

Higher(a, b) == a > b
Lower(a, b) == a < b

(***************************************************************************)
(* C16  to_orderbook(timestamp, D) returns at most D bids and at most D    *)
(* asks, the bids in strictly descending and the asks in strictly          *)
(* ascending price order with no duplicate price on a side, exactly the D  *)
(* best levels of the book on each side, and the maintainer's bids, asks   *)
(* and sequence are as before the call.                                    *)
(***************************************************************************)
C16_TopLevels ==
    book_out.made =>
        /\ Len(book_out.bids) <= book_out.depth
        /\ Len(book_out.asks) <= book_out.depth
        /\ BestLevels(book_out.bids, bids, book_out.depth, Higher)
        /\ BestLevels(book_out.asks, asks, book_out.depth, Lower)
        /\ book_out.sequence = sequence

\* A snapshot of depth 2 of a book with three bids: the lowest bid is left out.
C16_Witness ==
    /\ book_out.made
    /\ book_out.depth = 2
    /\ Len(book_out.bids) = 2
    /\ \A p \in Prices : bids[p] # 0

\* The six checks of the gate in the order of the claim, as failed or not by the
\* arguments of the recorded call, and their Reject reasons.
GateFailures ==
    LET c == gateCall IN
    << ~c.params.enabled,
       c.prediction.confidence < c.params.min_confidence,
       c.features.spread_bps > c.params.max_spread_bps,
       c.prediction.edge_bps
         - (c.costs.taker_fee_bps + c.costs.impact_bps + c.costs.slippage_buffer_bps)
         < c.params.min_edge_bps,
       c.risk.kill_switch_active,
       c.risk.daily_loss_exceeded >>

GateReasons ==
    << "Gate disabled", "Low confidence", "Wide spread", "Insufficient edge",
       "Kill switch active", "Daily loss limit exceeded" >>

(***************************************************************************)
(* C17  TradeGate.check evaluates its checks in the order gate disabled,   *)
(* confidence < min_confidence, spread_bps > max_spread_bps,               *)
(* net_edge_taker < min_edge_bps, kill_switch_active, daily_loss_exceeded; *)
(* the Reject reason is that of the first check in this order that fails,  *)
(* and the result is Pass with net_edge_bps = edge_bps - (taker_fee +      *)
(* impact + slippage) exactly when none fails.                             *)
(***************************************************************************)
C17_OrderedChecks ==
    gateCall.made =>
        LET failing == {i \in 1..6 : GateFailures[i]} IN
        IF failing = {}
        THEN /\ gateCall.result.pass
             /\ gateCall.result.net_edge_bps =
                  gateCall.prediction.edge_bps
                    - (gateCall.costs.taker_fee_bps + gateCall.costs.impact_bps
                       + gateCall.costs.slippage_buffer_bps)
        ELSE /\ ~gateCall.result.pass
             /\ gateCall.result.reason =
                  GateReasons[CHOOSE i \in failing : \A j \in failing : i <= j]

\* A call in which the confidence, the edge and both risk tests fail: the reason
\* returned is the one of the confidence.
C17_Witness ==
    /\ gateCall.made
    /\ GateFailures[2] /\ GateFailures[4] /\ GateFailures[5] /\ GateFailures[6]
    /\ gateCall.result.reason = "Low confidence"

(***************************************************************************)
(* C18  Every RouteDecision with should_trade = TRUE, whether produced by  *)
(* OrderRouter.decide or by RLAgent.to_route_decision, has                 *)
(* 0 < size_fraction <= 0.10 and 2 <= hold_duration_s <= 60, for all gate  *)
(* parameters (min_confidence = 0 included) and all RL actions.            *)
(***************************************************************************)
C18_DecisionBounds ==
    (routeCall.made /\ routeCall.decision.should_trade)
    => /\ 0 < routeCall.decision.size_fraction
       /\ routeCall.decision.size_fraction <= 1000
       /\ 2000 <= routeCall.decision.hold_duration_ms
       /\ routeCall.decision.hold_duration_ms <= 60000

(***************************************************************************)
(* C19  daily_pnl is reset to 0 exactly when the wall clock passes         *)
(* daily_start + 86,400 s: a check_limits evaluated after that boundary    *)
(* observes the reset daily_pnl (daily_loss_exceeded = FALSE), whether or  *)
(* not update_pnl has been called since the boundary.                      *)
(***************************************************************************)
C19_ResetAtBoundary ==
    (riskCall.made /\ now > daily_start + DAY)
    => riskCall.result.reason # "Daily loss limit exceeded"

(***************************************************************************)
(* C20  The kill switch moves only Armed -> Tripped by                     *)
(* activate_kill_switch and Tripped -> Armed by deactivate_kill_switch;    *)
(* update_pnl (the call that performs the daily reset included),           *)
(* update_position and check_limits leave it unchanged, so Tripped is      *)
(* sticky across a daily reset.                                            *)
(***************************************************************************)
C20_KillSwitchFrame ==
    [][ /\ (UpdatePnl \/ UpdatePosition \/ CheckLimits) => kill_switch' = kill_switch
        /\ (kill_switch' # kill_switch) =>
              \/ kill_switch' /\ ActivateKillSwitch
              \/ ~kill_switch' /\ DeactivateKillSwitch ]_vars

\* The kill switch is active after update_pnl has made a daily reset.
C20_Witness == kill_switch /\ daily_start > 0 /\ daily_pnl = 0

\* The constituents of the last predict_ensemble call that returned a
\* Prediction.
Succeeded == {i \in 1..3 : ensembleCall.outcomes[i].result = "Prediction"}

(***************************************************************************)
(* C21  predict_ensemble over IDEC, Transformer and GBDT returns, when at  *)
(* least one of them succeeds, the edge sum(e_i * c_i) / sum(c_i) and the  *)
(* confidence mean(c_i) taken over the successful constituents only, with  *)
(* no error for the failed ones; when all three fail it returns a Model    *)
(* error.                                                                  *)
(***************************************************************************)
C21_EnsembleOverSuccessful ==
    ensembleCall.made =>
        IF Succeeded = {}
        THEN ensembleCall.result = "Model"
        ELSE /\ ensembleCall.result = "Prediction"
             /\ ensembleCall.edge_num =
                    SumOver([i \in 1..3 |-> ensembleCall.outcomes[i].edge_bps
                                * ensembleCall.outcomes[i].confidence], Succeeded)
             /\ ensembleCall.edge_den =
                    SumOver([i \in 1..3 |-> ensembleCall.outcomes[i].confidence],
                            Succeeded)
             /\ ensembleCall.confidence_num * Cardinality(Succeeded) =
                    ensembleCall.confidence_den
                    * SumOver([i \in 1..3 |-> ensembleCall.outcomes[i].confidence],
                              Succeeded)
             /\ ensembleCall.confidence_den > 0

\* (10.0 bps, 0.6), a timeout, (20.0 bps, 0.9): edge 16.0 bps, confidence 0.75.
C21_Witness ==
    /\ ensembleCall.made
    /\ ensembleCall.outcomes[1].result = "Prediction"
    /\ ensembleCall.outcomes[1].edge_bps = 100
    /\ ensembleCall.outcomes[1].confidence = 60
    /\ ensembleCall.outcomes[2].result = "Timeout"
    /\ ensembleCall.outcomes[3].result = "Prediction"
    /\ ensembleCall.outcomes[3].edge_bps = 200
    /\ ensembleCall.outcomes[3].confidence = 90
    /\ ensembleCall.result = "Prediction"
    /\ ensembleCall.edge_num = 160 * ensembleCall.edge_den
    /\ ensembleCall.confidence_num * 100 = 75 * 100 * ensembleCall.confidence_den

(***************************************************************************)
(* C22  Every Prediction returned by predict and by predict_ensemble has   *)
(* 0 <= confidence <= 1, whatever the raw model outputs are.               *)
(***************************************************************************)
C22_ConfidenceInUnitInterval ==
    /\ (predictCall.made /\ predictCall.result = "Prediction")
        => (0 <= predictCall.confidence /\ predictCall.confidence <= 100)
    /\ (ensembleCall.made /\ ensembleCall.result = "Prediction")
        => /\ 0 <= ensembleCall.confidence_num
           /\ ensembleCall.confidence_num <= 100 * ensembleCall.confidence_den

(***************************************************************************)
(* C23  In Hybrid decision mode the engine emits a trade only when both    *)
(* the RL decision and the ML decision have should_trade = true: a         *)
(* disagreement gives should_trade = false, and an error in either path    *)
(* gives no trade.                                                         *)
(***************************************************************************)
C23_HybridNeedsBoth ==
    decision_mode = "Hybrid" =>
        /\ decision.made => (decision.should_trade <=> (decision.rl /\ decision.ml))
        /\ pc \in {"execute", "send"} => (decision.made /\ decision.rl /\ decision.ml)
        /\ last_order.made => decision.made

C23_Witness ==
    /\ decision_mode = "Hybrid"
    /\ pc = "send"
    /\ last_order.made
    /\ decision.rl /\ decision.ml

(***************************************************************************)
(* C24  adapter.send_order is called only while the trading mode is Live:  *)
(* no order is sent in Paused, Paper or Backtest mode, for every sequence  *)
(* of set_mode calls and signals.                                          *)
(***************************************************************************)
C24_OrdersOnlyLive ==
    /\ last_order.made => last_order.mode = "Live"
    /\ pc \in {"execute", "send"} => mode = "Live"

\* An order went out in Live mode and set_mode has paused the engine since.
C24_Witness == last_order.made /\ mode = "Paused" /\ arrived > last_order.seq

(***************************************************************************)
(* C25  While the engine is running, every snapshot an adapter publishes   *)
(* on its snapshot channel is eventually received by                       *)
(* process_with_batching and included in a batch.  A snapshot can be       *)
(* received only from the channel process_with_batching reads, so every    *)
(* snapshot published has been sent on that channel.                       *)
(***************************************************************************)
C25_PublishedReachBatcher ==
    phase = "running" => snapshot_q <= arrived

\* The capacity of the snapshot channel.
ChannelCapacity == 2

(***************************************************************************)
(* C26  The snapshot channel is bounded: the number of snapshots queued    *)
(* never exceeds the capacity of the channel, the producer dropping the    *)
(* oldest one when it is full.                                             *)
(***************************************************************************)
C26_SnapshotChannelBounded ==
    snapshot_q <= ChannelCapacity /\ Len(chan) <= ChannelCapacity

(***************************************************************************)
(* C27  After the shutdown watch value is set to true, run returns Ok with *)
(* the processing task stopped, and run does not return before it has      *)
(* observed a true shutdown value: whenever run has returned, the shutdown *)
(* value is true and the processing task runs no more, being dropped or    *)
(* suspended for good at an await with its abort requested.                *)
(***************************************************************************)
C27_RunReturnsWithTaskStopped ==
    phase = "stopped" =>
        /\ shutdown
        /\ abort_requested
        /\ pc \in {"aborted", "recv", "infer", "send"}

(***************************************************************************)
(* C28  RateLimiter.acquire grants a guard only when the bucket holds at   *)
(* least one token after the lazy refill, and the number of guards granted *)
(* since construction is at most the tokens at the start plus refill_rate  *)
(* times the time elapsed.                                                 *)
(***************************************************************************)
C28_GrantsWithinTokens ==
    /\ grant.made => grant.available >= 1
    /\ granted <= BucketCapacity + RefillRate * lim_now

C30_LatestValueOnConnect ==
    /\ [](\A s \in Streams :
            (sub[s].state = "connected" /\ tv_version[s] > 0)
            => \/ sub[s].seen # tv_version[s]
               \/ sub[s].sent > 0 /\ sub[s].last = tv_value[s])
    /\ \A s \in Streams :
            (sub[s].state = "connected" /\ tv_version[s] > 0)
            ~> (sub[s].sent > 0 \/ sub[s].state = "closed")

\* Connected after the last publish, and sent its value all the same.
C30_Witness ==
    /\ sub["performance"].state = "connected"
    /\ sub["performance"].connected_at = MaxPublishes
    /\ sub["performance"].sent = 1
    /\ sub["performance"].last = tv_value["performance"]

(***************************************************************************)
(* C31  When an alerts subscriber lags behind the bounded alert broadcast, *)
(* the alerts it missed are dropped and counted and the subscriber keeps   *)
(* receiving the alerts published afterwards: its stream is not closed by  *)
(* the lag.                                                                *)
(***************************************************************************)
C31_LagKeepsStreamOpen ==
    alert_sub.lagged => alert_sub.state = "connected"

(***************************************************************************)
(* C32  A newly created InferencePool reports has_crypto_models = false    *)
(* and has_equity_models = false, and predict for a category whose models  *)
(* are not loaded returns the Model "NOT loaded" error without running any *)
(* inference, for every model type.                                        *)
(***************************************************************************)
C32_NotLoadedFails ==
    /\ ~loadCall.made => (~has_crypto_models /\ ~has_equity_models)
    /\ (predictCall.made /\ ~predictCall.loaded)
        => (predictCall.result = "not_loaded" /\ ~predictCall.ran)

\* predict on the equity GBDT model while only the crypto models are loaded.
C32_Witness ==
    /\ has_crypto_models /\ ~has_equity_models
    /\ predictCall.made
    /\ predictCall.category = "Equity"
    /\ predictCall.model_type = "GBDT"
    /\ predictCall.result = "not_loaded"

(***************************************************************************)
(* C37  Loading the models of a category is all-or-nothing and monotone:   *)
(* has_models(category) becomes true only after idec, transformer, gbdt    *)
(* and edge all loaded, a load that fails on any model leaves the loaded   *)
(* state of the category as it was, and once has_models(category) is true  *)
(* no later operation makes it false.                                      *)
(***************************************************************************)
C37_LoadAllOrNothing ==
    /\ [](~loadCall.made => (~has_crypto_models /\ ~has_equity_models))
    /\ [](loadCall.made =>
            (has_models(loadCall.category)
                <=> (loadCall.before
                     \/ \A n \in ModelNames : loadCall.files_ok[n])))
    /\ [][(has_crypto_models => has_crypto_models')
          /\ (has_equity_models => has_equity_models')]_vars

\* A load that failed on the edge model only, on a category not loaded before.
C37_Witness ==
    /\ loadCall.made
    /\ ~loadCall.before
    /\ loadCall.files_ok["idec"] /\ loadCall.files_ok["transformer"]
    /\ loadCall.files_ok["gbdt"] /\ ~loadCall.files_ok["edge"]
    /\ ~has_models(loadCall.category)

\* The cost components and the amounts one of them is raised by, in tenths of
\* a basis point.
CostFields ==
    {"taker_fee_bps", "maker_fee_bps", "maker_rebate_bps", "impact_bps",
     "slippage_buffer_bps"}
CostRaises == {1, 10, 100}
Raise(costs, field, by) == [costs EXCEPT ![field] = @ + by]

(***************************************************************************)
(* C33  Gate monotonicity in costs: for a fixed prediction, features, gate *)
(* parameters and risk state, raising any one cost component (taker fee,   *)
(* maker fee, maker rebate, impact or slippage buffer) never changes the   *)
(* result of TradeGate.check from Reject to Pass.                          *)
(***************************************************************************)
C33_CostMonotone ==
    (gateCall.made /\ ~gateCall.result.pass) =>
        \A field \in CostFields, by \in CostRaises :
            ~check(gateCall.params, gateCall.prediction, gateCall.features,
                   Raise(gateCall.costs, field, by), gateCall.risk).pass

\* Rejected for its edge alone, and passing once the taker fee is lowered.
C33_Witness ==
    /\ gateCall.made
    /\ gateCall.result.reason = "Insufficient edge"
    /\ ~gateCall.risk.kill_switch_active /\ ~gateCall.risk.daily_loss_exceeded
    /\ check(gateCall.params, gateCall.prediction, gateCall.features,
             Raise(gateCall.costs, "taker_fee_bps", -100), gateCall.risk).pass


\* C34: the batch holds its snapshots in arrival order, the signal being
\* processed is the one at the position the loop has reached, and an order is
\* made for a snapshot that arrived after the snapshot of the previous order of
\* the same symbol.
C34_ArrivalOrderKept ==
    /\ \A i \in 1..Len(batch) : \A j \in 1..Len(batch) :
            i < j => batch[i].seq < batch[j].seq
    /\ \A i \in 1..Len(batch) : \A j \in 1..Len(chan) :
            batch[i].seq < chan[j].seq
    /\ last_order.made => last_order.prev_seq < last_order.seq
    /\ (last_order.made /\ pc \in {"signal", "infer", "execute"}) =>
            last_order.sent_seq[batch[idx].symbol] < batch[idx].seq

\* Two orders of one symbol were made, the second from the second place of a
\* batch of two.
C34_Witness ==
    /\ last_order.made
    /\ last_order.prev_seq > 0
    /\ pc = "send"
    /\ idx = 2


\* C35: after a flush whose compute_batch failed, and until the next flush, the
\* buffer holds no snapshot of the failed batch (only snapshots that arrived
\* after it), no signal of it is being processed and no order was made for one
\* of its snapshots, engine_halt_gpu_failure has been counted, and the loop is
\* back at recv.
C35_FailedBatchDropped ==
    (flush_info.made /\ ~flush_info.kernel_ok) =>
        /\ pc = "recv"
        /\ idx = 0
        /\ \A i \in 1..Len(batch) : batch[i].seq > flush_info.upto
        /\ last_order.made => last_order.seq <= flush_info.upto - flush_info.size
        /\ flush_info.halts >= 1

\* A batch of two failed in the kernel and a later snapshot is in the buffer.
C35_Witness ==
    /\ flush_info.made
    /\ ~flush_info.kernel_ok
    /\ flush_info.size = 2
    /\ flush_info.halts = 1
    /\ Len(batch) = 1


\* C36: every step that ends the processing of a signal, with an error or
\* without, goes on to the next feature vector of the same batch while one is
\* left, and after the last one clears the batch and restarts the flush timer.
Processing == {"signal", "infer", "execute", "send"}

C36_OnlyFailedSignalSkipped ==
    [][(pc \in Processing /\ (idx' # idx \/ pc' \notin Processing)) =>
            IF idx < Len(batch)
            THEN idx' = idx + 1 /\ pc' = "signal" /\ batch' = batch
                 /\ last_flush' = last_flush
            ELSE idx' = 0 /\ pc' = "recv" /\ batch' = <<>> /\ last_flush' = mono]_vars

\* The first signal of a batch of two failed in the inference (no decision was
\* ever made) and the second is being processed.
C36_Witness ==
    /\ decision_mode = "MLTraditional"
    /\ ~decision.made
    /\ Len(batch) = 2
    /\ idx = 2
    /\ pc = "infer"


\* C38: the bucket holds between 0 and capacity tokens and at most capacity
\* guards are alive; a guard drop takes one token, or leaves the bucket at 0
\* when it holds none; try_acquire never waits (only a caller of acquire joins
\* the queue of the semaphore), and it returns a guard exactly when the bucket
\* held a token after the refill and a permit was free.
C38_LimiterInvariant ==
    /\ [](/\ 0 <= available
          /\ available <= BucketCapacity
          /\ Outstanding <= BucketCapacity
          /\ \A i \in 1..Len(sem_queue) : lim_pc[sem_queue[i]] = "waiting"
          /\ ("by" \in DOMAIN grant) =>
                (grant.made <=> (grant.tokens_ok /\ grant.permit_ok)))
    /\ [][\A c \in Callers :
            /\ (lim_pc[c] = "holding" /\ lim_pc'[c] = "idle") =>
                    /\ available' >= 0
                    /\ available' = IF available >= 1 THEN available - 1 ELSE 0
            /\ (lim_pc[c] = "trying") => lim_pc'[c] \in {"trying", "holding", "idle"}
            /\ (lim_pc'[c] = "waiting") => lim_pc[c] \in {"acquiring", "waiting"}]_vars

\* try_acquire found a token in the bucket and returned None for want of a
\* permit, both guards being alive, after guards were acquired and dropped.
C38_Witness ==
    /\ "by" \in DOMAIN grant
    /\ ~grant.made
    /\ grant.tokens_ok
    /\ Outstanding = BucketCapacity
    /\ granted >= 3


\* C39: the trading mode does not change while a signal is between the Paused
\* check and the return of process_signal_mandatory: a signal past the Paused
\* check is processed in a mode other than Paused, an order is being submitted
\* only while the mode is Live, and a step of set_mode is taken only when no
\* signal is suspended in its processing, leaving the task where it is.
C39_OneModePerSignal ==
    /\ [](pc = "infer" => mode # "Paused")
    /\ [](pc \in {"execute", "send"} => mode = "Live")
    /\ [][mode' # mode =>
            /\ pc \notin {"infer", "execute", "send"}
            /\ pc' = pc
            /\ idx' = idx]_vars

\* An order was made, set_mode has since changed Live to Paper, and a signal
\* is suspended in the inference under Paper.
C39_Witness ==
    /\ last_order.made
    /\ mode = "Paper"
    /\ pc = "infer"


====
